---- MODULE Spec2Model ----
(***************************************************************************)
(* Menu Maker (src/menu-maker.py): the menu store, the layout projection,  *)
(* the navigation cursor and the persistence of the menu record.           *)
(*                                                                         *)
(* Representation.  A Python dict with insertion order is a sequence of    *)
(* entries with pairwise distinct keys.  An optional key of a dict is a    *)
(* sequence of length 0 (key absent) or 1 (key present).  A string that    *)
(* the program inspects character by character (a colour) is a sequence of *)
(* one-character strings; every other string is an opaque TLA+ string.     *)
(* Indices into display_items are zero-based as in the program; the        *)
(* sequence itself is one-based, so entry i is display_items[i + 1].       *)
(***************************************************************************)
EXTENDS Integers, Sequences, FiniteSets, TLC

VARIABLES
    phase,          \* "off" | "constructed" | "running": process not started, __init__ done,
                    \* mounted and idle; "suspended" | "command" | "paused": where
                    \* run_external_command stands inside its with block
    menu_data,      \* MenuMaker.menu_data: the category tree
    column_count,   \* MenuMaker.column_count
    app_title,      \* MenuMaker.app_title
    custom_colors,  \* MenuMaker.custom_colors
    display_items,  \* MenuMaker.display_items: the flat navigation sequence
    current_index,  \* MenuMaker.current_index
    storage,        \* the content of ~/.local/menu-maker/menus.json
    lastOp,         \* history: the handler that ran last, its outcome, its number of writes
    call,           \* a call of a module-level or dialog function: its name, its
                    \* argument, its result once it has returned
    bin_dir         \* the directory ./bin: its files, <<>> when there is none

vars == <<phase, menu_data, column_count, app_title, custom_colors,
          display_items, current_index, storage, lastOp, call, bin_dir>>

----------------------------------------------------------------------------
(* Bounds and program constants *)

MaxItems == 2

\* the bound on the items of the fourth slice, where an add into a resident
\* category has to leave another category alone
MaxItemsClash == 3

MAX_COLUMNS == 6

----------------------------------------------------------------------------
(* Generic helpers *)

Max2(a, b) == IF a >= b THEN a ELSE b

Min2(a, b) == IF a <= b THEN a ELSE b

Range(s) == {s[i] : i \in 1..Len(s)}

\* Python: dict.get(key, default) for an optional key
Get(opt, default) == IF opt = <<>> THEN default ELSE opt[1]

\* sequence s without its element at position i (list.pop(i - 1))
RemoveAt(s, i) == [j \in 1..(Len(s) - 1) |-> IF j < i THEN s[j] ELSE s[j + 1]]

\* position of the first element of s satisfying Test, 0 if none
FirstIndex(s, Test(_)) ==
    IF \E i \in 1..Len(s) : Test(s[i])
    THEN CHOOSE i \in 1..Len(s) : Test(s[i]) /\ \A j \in 1..(i - 1) : ~Test(s[j])
    ELSE 0

RECURSIVE SumSeq(_)
SumSeq(s) == IF s = <<>> THEN 0 ELSE Head(s) + SumSeq(Tail(s))

----------------------------------------------------------------------------
(* Colours: normalize_hex_color and sanitize_color_pair *)

HexDigits == {"0", "1", "2", "3", "4", "5", "6", "7", "8", "9",
              "a", "b", "c", "d", "e", "f"}

UpperHex == {"A", "B", "C", "D", "E", "F"}

\* str.lower() on one character (the characters the model uses)
LowerChar(c) ==
    CASE c = "A" -> "a" [] c = "B" -> "b" [] c = "C" -> "c"
      [] c = "D" -> "d" [] c = "E" -> "e" [] c = "F" -> "f"
      [] c = "X" -> "x" [] c = "Z" -> "z"
      [] OTHER -> c

Lower(s) == [i \in 1..Len(s) |-> LowerChar(s[i])]

IsSpace(c) == c = " "

\* str.strip(): drop leading and trailing whitespace
RECURSIVE LStrip(_)
LStrip(s) == IF s # <<>> /\ IsSpace(Head(s)) THEN LStrip(Tail(s)) ELSE s

RECURSIVE RStrip(_)
RStrip(s) ==
    IF s # <<>> /\ IsSpace(s[Len(s)]) THEN RStrip(SubSeq(s, 1, Len(s) - 1)) ELSE s

Strip(s) == RStrip(LStrip(s))

\* the digit part of a Python integer literal in base 16: digits, with single
\* underscores allowed only between two digits
DigitsOk(d) ==
    /\ d # <<>>
    /\ \A i \in 1..Len(d) : d[i] \in HexDigits \cup UpperHex \cup {"_"}
    /\ d[1] # "_" /\ d[Len(d)] # "_"
    /\ \A i \in 1..(Len(d) - 1) : ~(d[i] = "_" /\ d[i + 1] = "_")

\* int(text, 16): the literal without its sign
Unsigned(t) == IF t # <<>> /\ t[1] \in {"+", "-"} THEN Tail(t) ELSE t

\* int(text, 16): the literal starts with 0x or 0X
HasPrefix(u) == Len(u) >= 2 /\ u[1] = "0" /\ u[2] \in {"x", "X"}

\* int(text, 16): the literal without its 0x prefix
Unprefixed(u) == IF HasPrefix(u) THEN SubSeq(u, 3, Len(u)) ELSE u

\* int(text, 16): the digits v of the unsigned literal u are accepted; a
\* prefix may be followed by one underscore
LiteralOk(u, v) ==
    \/ DigitsOk(v)
    \/ HasPrefix(u) /\ v # <<>> /\ v[1] = "_" /\ DigitsOk(Tail(v))

\* int(text, 16) does not raise ValueError: surrounding whitespace, an optional
\* sign, an optional 0x prefix, digits
PyIntBase16Ok(text) == LiteralOk(Unsigned(Strip(text)), Unprefixed(Unsigned(Strip(text))))

\* normalize_hex_color: the colour with its leading "#"
Hashed(color) == IF color # <<>> /\ color[1] = "#" THEN color ELSE <<"#">> \o color

\* normalize_hex_color: the length test and the int() test
CheckedColor(hashed) ==
    IF Len(hashed) # 7 THEN <<>>
    ELSE IF ~PyIntBase16Ok(Tail(hashed)) THEN <<>>
    ELSE <<hashed>>

\* normalize_hex_color on the stripped, lower-cased string
NormalizedColor(color) == IF color = <<>> THEN <<>> ELSE CheckedColor(Hashed(color))

\* normalize_hex_color: the result is <<>> for None, <<colour>> otherwise;
\* the argument is an optional value (<<>> for None or a missing key)
normalize_hex_color(value) ==
    IF value = <<>> \/ value[1] = <<>> THEN <<>>
    ELSE NormalizedColor(Lower(Strip(value[1])))

\* sanitize_color_pair: the pair made of two normalized colours, if both exist
ColorPair(background, text) ==
    IF background # <<>> /\ text # <<>>
    THEN <<[background |-> <<background[1]>>, text |-> <<text[1]>>]>>
    ELSE <<>>

\* sanitize_color_pair: the argument is an optional [background, text] record
\* whose fields are optional strings; the result is an optional colour pair
sanitize_color_pair(color_pair) ==
    IF color_pair = <<>> THEN <<>>
    ELSE ColorPair(normalize_hex_color(color_pair[1].background),
                   normalize_hex_color(color_pair[1].text))

----------------------------------------------------------------------------
(* Data: items, categories, palette entries, the stored menu record *)

Hex(a, b, c, d, e, f) == <<"#", a, b, c, d, e, f>>

\* DEFAULT_COLOR_PAIRS
DEFAULT_COLOR_PAIRS ==
    << [name |-> <<"Teal Glow">>,
        background |-> <<Hex("0", "3", "4", "e", "6", "8")>>,
        text |-> <<Hex("c", "a", "f", "0", "f", "8")>>],
       [name |-> <<"Amber Pop">>,
        background |-> <<Hex("6", "f", "1", "d", "1", "b")>>,
        text |-> <<Hex("f", "f", "e", "5", "d", "9")>>],
       [name |-> <<"Purple Mist">>,
        background |-> <<Hex("2", "4", "0", "0", "4", "6")>>,
        text |-> <<Hex("f", "8", "f", "9", "f", "a")>>],
       [name |-> <<"Forest Tones">>,
        background |-> <<Hex("2", "8", "3", "6", "1", "8")>>,
        text |-> <<Hex("f", "e", "f", "a", "e", "0")>>],
       [name |-> <<"Slate Shine">>,
        background |-> <<Hex("2", "b", "2", "d", "4", "2")>>,
        text |-> <<Hex("e", "d", "f", "2", "f", "4")>>] >>

\* the title __init__ sets
DEFAULT_TITLE == "Menu Maker - Enhanced Categorized Menu System"

\* an item dict; pause is an optional key
Item(label, cmd, info, category, pause) ==
    [label |-> label, cmd |-> cmd, info |-> info, category |-> category, pause |-> pause]

\* a category: one entry of menu_data, name being its key
Category(name, expanded, column, colors, items) ==
    [name |-> name, expanded |-> expanded, column |-> column, colors |-> colors,
     items |-> items]

\* the item create_default_menu builds (it has no pause key)
DefaultItem ==
    Item("System Monitor", "htop", "Interactive process viewer", "System Tools", <<>>)

\* the tree create_default_menu builds
DefaultTree == << Category("System Tools", TRUE, <<1>>, <<>>, <<DefaultItem>>) >>

Names(tree) == {tree[i].name : i \in 1..Len(tree)}

\* position of the category keyed name in the tree, 0 if absent
IndexOf(tree, name) == FirstIndex(tree, LAMBDA c : c.name = name)

TotalItems(tree) == SumSeq([i \in 1..Len(tree) |-> Len(tree[i].items)])

\* json.dump of one category: the value stored under its key is a JSON object
ToJson(c) ==
    [key |-> c.name, isdict |-> TRUE, expanded |-> c.expanded, column |-> c.column,
     colors |-> c.colors, items |-> c.items]

\* json.load of one well-formed category entry
FromJson(e) == Category(e.key, e.expanded, e.column, e.colors, e.items)

\* the file content: kind is "missing" (no file), "corrupt" (not JSON) or "record"
Stored(kind, categories, app_settings, colors) ==
    [kind |-> kind, categories |-> categories, app_settings |-> app_settings,
     custom_colors |-> colors]

NoFile == Stored("missing", <<>>, <<>>, <<>>)

CorruptFile == Stored("corrupt", <<>>, <<>>, <<>>)

\* the record save_menu_data writes
MenuRecord(tree, title, columns, colors) ==
    Stored("record",
           [i \in 1..Len(tree) |-> ToJson(tree[i])],
           <<[title |-> <<title>>, columns |-> <<columns>>, theme |-> FALSE]>>,
           colors)

----------------------------------------------------------------------------
(* The resident state threaded through one handler.  writes counts the    *)
(* successful writes of the menu record the handler has made so far.      *)

State(mounted, tree, columns, title, colors, items, index, disk, writes) ==
    [mounted |-> mounted, menu_data |-> tree, column_count |-> columns,
     app_title |-> title, custom_colors |-> colors, display_items |-> items,
     current_index |-> index, storage |-> disk, writes |-> writes]

Current ==
    State(phase = "running", menu_data, column_count, app_title, custom_colors,
          display_items, current_index, storage, 0)

\* a save that counts as written and leaves the file as it was
save_menu_data_dry(s) == [s EXCEPT !.writes = @ + 1]

\* save_menu_data
save_menu_data(s) ==
    [s EXCEPT !.storage = MenuRecord(s.menu_data, s.app_title, s.column_count,
                                     s.custom_colors),
              !.writes = @ + 1]

\* a clamp with the lower limit only
clamp_column_count_open(value) == Max2(1, value)

\* clamp_column_count, on an integer
clamp_column_count(value) == Max2(1, Min2(MAX_COLUMNS, value))

\* a column value that is not held below the column count
normalize_column_value_open(s, value) == Max2(1, value)

\* normalize_column_value, on an integer, against the current column count
normalize_column_value(s, value) == Max2(1, Min2(s.column_count, value))

\* ensure_category_columns: the tree with every column normalized in place
\* (a missing column key reads as 1 and is only written when 1 is not the result)
EnsuredTree(s) ==
    [i \in 1..Len(s.menu_data) |->
        LET c == s.menu_data[i]
            normalized == normalize_column_value(s, Get(c.column, 1))
        IN  IF Get(c.column, 1) # normalized THEN [c EXCEPT !.column = <<normalized>>]
            ELSE c]

ensure_category_columns(s) == [s EXCEPT !.menu_data = EnsuredTree(s)]

\* the value ensure_category_columns returns
ColumnsChanged(s) == EnsuredTree(s) # s.menu_data

----------------------------------------------------------------------------
(* Layout projection: update_menu_display and what it calls *)

\* the two shapes of a display_items entry
CategoryHeader(name) == [type |-> "category", name |-> name, data |-> <<>>]

MenuItem(item) == [type |-> "item", name |-> "", data |-> <<item>>]

RECURSIVE Flatten(_)
Flatten(ss) == IF ss = <<>> THEN <<>> ELSE Head(ss) \o Flatten(Tail(ss))

\* a build loop that lists the items of collapsed categories too
CategoryEntries_all(c) ==
    <<CategoryHeader(c.name)>> \o [i \in 1..Len(c.items) |-> MenuItem(c.items[i])]

\* the entries one category contributes: its header, then its items if expanded
CategoryEntries(c) ==
    <<CategoryHeader(c.name)>> \o
    (IF c.expanded THEN [i \in 1..Len(c.items) |-> MenuItem(c.items[i])] ELSE <<>>)

\* columns_content[k]: the categories assigned to column k, in tree order
ColumnContent(tree, k) == SelectSeq(tree, LAMBDA c : c.column = <<k>>)

\* the entries the build loop appends: columns 1..columns in order
BuildEntries(tree, columns) ==
    Flatten([k \in 1..columns |->
        Flatten([i \in 1..Len(ColumnContent(tree, k)) |->
            CategoryEntries(ColumnContent(tree, k)[i])])])

\* a highlighting pass that leaves the index as it is
update_highlighting_unclamped(s) == s

\* update_highlighting: clamps current_index when display_items is not empty
update_highlighting(s) ==
    IF s.display_items = <<>> THEN s
    ELSE [s EXCEPT !.current_index = Max2(0, Min2(@, Len(s.display_items) - 1))]

\* the column loop of update_menu_display: every category gets its normalized
\* column written (a missing key differs from any number, so it is written too)
DisplayColumns(s) ==
    [i \in 1..Len(s.menu_data) |->
        [s.menu_data[i] EXCEPT
            !.column = <<normalize_column_value(s, Get(s.menu_data[i].column, 1))>>]]

RECURSIVE update_menu_display(_)

\* watch_menu_data: the reactive hook, run synchronously when menu_data is
\* assigned a value that differs from the one it holds
watch_menu_data(s) == update_menu_display(s)

\* the assignment self.menu_data = value: old is what the dict held so far
\* reads as at the time of the assignment (after in-place changes to the
\* category dicts it shares with value)
assign_menu_data(s, old, value) ==
    IF old # value THEN watch_menu_data([s EXCEPT !.menu_data = value])
    ELSE [s EXCEPT !.menu_data = value]

\* an emptiness test that never finds a category empty
HasItems_always(c) == TRUE

\* the emptiness test on a category's item list ("if items", "if not items")
HasItems(c) == c.items # <<>>

\* cleanup_empty_categories
cleanup_empty_categories(s) ==
    LET updated_data == SelectSeq(s.menu_data, HasItems)
    IN  IF updated_data # s.menu_data
        THEN save_menu_data(assign_menu_data(s, s.menu_data, updated_data))
        ELSE s

\* update_menu_display: the column loop, and the save when a column changed
assign_columns(s) ==
    IF DisplayColumns(s) # s.menu_data
    THEN save_menu_data([s EXCEPT !.menu_data = DisplayColumns(s)])
    ELSE s

\* update_menu_display: the build loop appends to display_items
build_display(s) ==
    [s EXCEPT !.display_items = @ \o BuildEntries(s.menu_data, s.column_count)]

\* update_menu_display
update_menu_display(s) ==
    IF ~s.mounted THEN s
    ELSE update_highlighting(
             build_display(
                 assign_columns(
                     cleanup_empty_categories([s EXCEPT !.display_items = <<>>]))))

----------------------------------------------------------------------------
(* Navigation cursor *)

\* a cursor that stops at the first and the last entry
move_cursor_stop(s, step) ==
    IF s.display_items = <<>> THEN s
    ELSE LET new_index ==
                 Max2(0, Min2(s.current_index + step, Len(s.display_items) - 1))
         IN  IF new_index # s.current_index
             THEN update_highlighting([s EXCEPT !.current_index = new_index])
             ELSE s

\* action_cursor_up / action_cursor_down: step is -1 or 1
move_cursor(s, step) ==
    IF s.display_items = <<>> THEN s
    ELSE LET new_index == (s.current_index + step) % Len(s.display_items)
         IN  IF new_index # s.current_index
             THEN update_highlighting([s EXCEPT !.current_index = new_index])
             ELSE s

\* a restore that takes the 1-based position for the index
restore_position_to_category_off(s, category_name) ==
    LET i == FirstIndex(s.display_items,
                        LAMBDA e : e.type = "category" /\ e.name = category_name)
    IN  IF i # 0 THEN [s EXCEPT !.current_index = i] ELSE s

\* a restore that leaves the cursor at the index it had
restore_position_to_category_kept(s, category_name) == s

\* restore_position_to_category
restore_position_to_category(s, category_name) ==
    LET i == FirstIndex(s.display_items,
                        LAMBDA e : e.type = "category" /\ e.name = category_name)
    IN  IF i # 0 THEN [s EXCEPT !.current_index = i - 1] ELSE s

\* a search that leaves the cursor where the projection put it
navigate_to_item_stay(s, target_item) == s

\* navigate_to_item
navigate_to_item(s, target_item) ==
    LET i == FirstIndex(s.display_items,
                        LAMBDA e : /\ e.type = "item"
                                   /\ e.data[1].label = target_item.label
                                   /\ e.data[1].cmd = target_item.cmd)
    IN  IF i # 0 THEN update_highlighting([s EXCEPT !.current_index = i - 1]) ELSE s

\* the guard the cursor-driven handlers start with
HasCurrent(s) == s.display_items # <<>> /\ s.current_index < Len(s.display_items)

CurrentEntry(s) == s.display_items[s.current_index + 1]

----------------------------------------------------------------------------
(* Menu store: the handlers that change the tree *)

\* a new category that starts collapsed
NewCategory_collapsed(s, name, items) ==
    Category(name, FALSE, <<normalize_column_value(s, 1)>>, <<>>, items)

\* a new category placed in the last column
NewCategory_last(s, name, items) ==
    Category(name, TRUE, <<s.column_count>>, <<>>, items)

\* the category dict add_new_item and update_item create for an absent category
NewCategory(s, name, items) ==
    Category(name, TRUE, <<normalize_column_value(s, 1)>>, <<>>, items)

\* add_new_item
add_new_item(s, item_data) ==
    LET category == item_data.category
        exists == category \in Names(s.menu_data)
        created == IF exists THEN s.menu_data
                   ELSE Append(s.menu_data, NewCategory(s, category, <<>>))
        updated_data == [created EXCEPT
                            ![IndexOf(created, category)].items = Append(@, item_data)]
        \* an existing category dict is shared with the old dict, a new key is not
        old == IF exists THEN updated_data ELSE s.menu_data
    IN  update_menu_display(save_menu_data(assign_menu_data(s, old, updated_data)))

\* update_item: the first category, in tree order, holding an item with the old
\* label and cmd, 0 when there is none (item_found stays False)
FoundCategory(tree, old_item) ==
    FirstIndex(tree, LAMBDA c : \E i \in 1..Len(c.items) :
                                    /\ c.items[i].label = old_item.label
                                    /\ c.items[i].cmd = old_item.cmd)

\* an update that files the new item at the head of its category
update_found_item_front(s, old_item, new_item, k) ==
    LET tree == s.menu_data
        i == FirstIndex(tree[k].items, LAMBDA it : /\ it.label = old_item.label
                                                   /\ it.cmd = old_item.cmd)
        popped == [tree EXCEPT ![k].items = RemoveAt(@, i)]
        exists == new_item.category \in Names(popped)
        added == IF exists
                 THEN [popped EXCEPT ![IndexOf(popped, new_item.category)].items =
                                         <<new_item>> \o @]
                 ELSE Append(popped, NewCategory(s, new_item.category, <<new_item>>))
        old == IF exists THEN added ELSE popped
    IN  navigate_to_item(
            update_menu_display(
                save_menu_data(assign_menu_data(s, old, SelectSeq(added, HasItems)))),
            new_item)

\* update_item once the item was found in the category at position k
update_found_item(s, old_item, new_item, k) ==
    LET tree == s.menu_data
        new_category == new_item.category
    IN       LET i == FirstIndex(tree[k].items,
                                 LAMBDA it : /\ it.label = old_item.label
                                             /\ it.cmd = old_item.cmd)
                 popped == [tree EXCEPT ![k].items = RemoveAt(@, i)]
                 exists == new_category \in Names(popped)
                 added == IF exists
                          THEN [popped EXCEPT ![IndexOf(popped, new_category)].items =
                                                  Append(@, new_item)]
                          ELSE Append(popped, NewCategory(s, new_category, <<new_item>>))
                 \* what the old dict reads as: its own keys, changed in place
                 old == IF exists THEN added ELSE popped
                 updated_data == SelectSeq(added, HasItems)
             IN  navigate_to_item(
                     update_menu_display(
                         save_menu_data(assign_menu_data(s, old, updated_data))),
                     new_item)

\* an update that files the new item even when the old one was not found
update_item_upsert(s, old_item, new_item) ==
    IF FoundCategory(s.menu_data, old_item) = 0 THEN add_new_item(s, new_item)
    ELSE update_found_item(s, old_item, new_item, FoundCategory(s.menu_data, old_item))

\* update_item
update_item(s, old_item, new_item) ==
    IF FoundCategory(s.menu_data, old_item) = 0 THEN s
    ELSE update_found_item(s, old_item, new_item, FoundCategory(s.menu_data, old_item))

\* action_delete_item: the cursor is on an item whose category field names a
\* category that holds an equal item
DeleteFinds(s) ==
    /\ HasCurrent(s)
    /\ CurrentEntry(s).type = "item"
    /\ LET item_data == CurrentEntry(s).data[1]
           k == IndexOf(s.menu_data, item_data.category)
       IN  k # 0 /\ item_data \in Range(s.menu_data[k].items)

\* action_delete_item: the index adjustment that follows the display update
adjust_index(s) ==
    IF s.current_index >= Len(s.display_items) - 1
    THEN [s EXCEPT !.current_index = Max2(0, Len(s.display_items) - 2)]
    ELSE s

\* action_delete_item
action_delete_item(s) ==
    IF ~DeleteFinds(s) THEN s
    ELSE LET item_data == CurrentEntry(s).data[1]
             tree == s.menu_data
             k == IndexOf(tree, item_data.category)
             i == FirstIndex(tree[k].items, LAMBDA it : it = item_data)
             removed == [tree EXCEPT ![k].items = RemoveAt(@, i)]
             updated_data == IF ~HasItems(removed[k]) THEN RemoveAt(removed, k)
                             ELSE removed
         IN  adjust_index(
                 update_menu_display(
                     save_menu_data(assign_menu_data(s, removed, updated_data))))

\* action_toggle_category: the cursor is on the header of a resident category
ToggleApplies(s) ==
    /\ HasCurrent(s)
    /\ CurrentEntry(s).type = "category"
    /\ CurrentEntry(s).name \in Names(s.menu_data)

\* a toggle that changes the resident flag and does not write the record
action_toggle_category_unsaved(s) ==
    IF ~ToggleApplies(s) THEN s
    ELSE LET category_name == CurrentEntry(s).name
             k == IndexOf(s.menu_data, category_name)
             updated_data == [s.menu_data EXCEPT ![k].expanded = ~@]
         IN  restore_position_to_category(
                 update_menu_display(assign_menu_data(s, updated_data, updated_data)),
                 category_name)

\* a toggle that collapses the category whatever its flag
action_toggle_category_collapse(s) ==
    IF ~ToggleApplies(s) THEN s
    ELSE LET category_name == CurrentEntry(s).name
             k == IndexOf(s.menu_data, category_name)
             updated_data == [s.menu_data EXCEPT ![k].expanded = FALSE]
         IN  restore_position_to_category(
                 update_menu_display(
                     save_menu_data(assign_menu_data(s, updated_data, updated_data))),
                 category_name)

\* action_toggle_category
action_toggle_category(s) ==
    IF ~ToggleApplies(s) THEN s
    ELSE LET category_name == CurrentEntry(s).name
             k == IndexOf(s.menu_data, category_name)
             updated_data == [s.menu_data EXCEPT ![k].expanded = ~@]
         IN  restore_position_to_category(
                 update_menu_display(
                     save_menu_data(assign_menu_data(s, updated_data, updated_data))),
                 category_name)

\* update_category_details: the name the category ends up with
TargetName(tree, old_name, new_name) ==
    LET target_name == IF new_name # "" THEN new_name ELSE old_name
    IN  IF target_name # old_name /\ target_name \in Names(tree) THEN old_name
        ELSE target_name

\* a rename that leaves the category field of the items as it was
rewrite_items_kept(items, target_name) == items

\* update_category_details: the loop that rewrites the category field of the items
rewrite_items(items, target_name) ==
    [i \in 1..Len(items) |-> [items[i] EXCEPT !.category = target_name]]

\* update_category_details; colors is an optional pair, column an optional integer
update_category_details(s, old_name, new_name, colors, column) ==
    IF old_name \notin Names(s.menu_data) THEN s
    ELSE LET tree == s.menu_data
             k == IndexOf(tree, old_name)
             sanitized_colors == sanitize_color_pair(colors)
             column_value == normalize_column_value(
                                 s, IF column # <<>> THEN column[1]
                                    ELSE Get(tree[k].column, 1))
             target_name == TargetName(tree, old_name, new_name)
             renamed_items == rewrite_items(tree[k].items, target_name)
             category_data == [tree[k] EXCEPT !.column = <<column_value>>,
                                              !.colors = sanitized_colors]
             \* a rename rewrites the shared item dicts, then re-keys at the end
             old == IF target_name # old_name
                    THEN [tree EXCEPT ![k].items = renamed_items] ELSE tree
             updated_data ==
                 IF target_name # old_name
                 THEN Append(RemoveAt(tree, k),
                             [category_data EXCEPT !.name = target_name,
                                                   !.items = renamed_items])
                 ELSE [tree EXCEPT ![k] = category_data]
         IN  update_highlighting(
                 restore_position_to_category(
                     update_menu_display(
                         save_menu_data(assign_menu_data(s, old, updated_data))),
                     target_name))

\* _build_palette_entries: a value that is truthy (a key that is there and is
\* not the empty string)
Truthy(opt) == opt # <<>> /\ opt[1] # <<>>

\* _build_palette_entries: the entry has a background and a text
HasPair(color) == Truthy(color.background) /\ Truthy(color.text)

\* _build_palette_entries: (bg.lower(), text.lower())
LowerPair(color) == <<Lower(color.background[1]), Lower(color.text[1])>>

\* _build_palette_entries: seen_pairs after the first loop
SeenPairs(palette) ==
    {LowerPair(palette[i]) : i \in {j \in 1..Len(palette) : HasPair(palette[j])}}

\* _build_palette_entries: the name of the filler appended to a palette of n
FillerName(n) ==
    CASE n = 0 -> "Color 1" [] n = 1 -> "Color 2" [] n = 2 -> "Color 3"
      [] OTHER -> "Color 4"

\* _build_palette_entries: the while loop
RECURSIVE Filled(_)
Filled(palette) ==
    IF Len(palette) >= 4 THEN palette
    ELSE Filled(Append(palette,
                       [name |-> <<FillerName(Len(palette))>>,
                        background |-> <<Hex("0", "3", "4", "e", "6", "8")>>,
                        text |-> <<Hex("c", "a", "f", "0", "f", "8")>>]))

\* _build_palette_entries: the loop over DEFAULT_COLOR_PAIRS from position i,
\* left as soon as the palette has 4 entries at the end of a pass
RECURSIVE WithDefaults(_, _, _)
WithDefaults(palette, seen_pairs, i) ==
    IF i > Len(DEFAULT_COLOR_PAIRS) THEN palette
    ELSE IF ~HasPair(DEFAULT_COLOR_PAIRS[i])
    THEN WithDefaults(palette, seen_pairs, i + 1)
    ELSE IF LowerPair(DEFAULT_COLOR_PAIRS[i]) \in seen_pairs
    THEN (IF Len(palette) >= 4 THEN palette
          ELSE WithDefaults(palette, seen_pairs, i + 1))
    ELSE (IF Len(palette) + 1 >= 4 THEN Append(palette, DEFAULT_COLOR_PAIRS[i])
          ELSE WithDefaults(Append(palette, DEFAULT_COLOR_PAIRS[i]),
                            seen_pairs \cup {LowerPair(DEFAULT_COLOR_PAIRS[i])}, i + 1))

\* EditCategoryScreen._build_palette_entries
build_palette_entries(available_colors) ==
    Filled(WithDefaults(available_colors, SeenPairs(available_colors), 1))

\* a save that does not look for another category of that name
SaveError_unchecked(old_category_name, existing_categories, new_name, background, text) ==
    IF new_name = "" THEN "Category name is required."
    ELSE IF (background # <<>> /\ text = <<>>) \/ (text # <<>> /\ background = <<>>)
    THEN "Provide both background and text colors or leave both blank."
    ELSE ""

\* EditCategoryScreen.action_save: the error it shows, "" when it shows none;
\* background and text are the two colour inputs, normalized
SaveError(old_category_name, existing_categories, new_name, background, text) ==
    IF new_name = "" THEN "Category name is required."
    ELSE IF (background # <<>> /\ text = <<>>) \/ (text # <<>> /\ background = <<>>)
    THEN "Provide both background and text colors or leave both blank."
    ELSE IF /\ new_name # old_category_name
            /\ new_name \in existing_categories \ {old_category_name}
    THEN "Another category already uses that name."
    ELSE ""

\* EditCategoryScreen.action_save: the result it dismisses with; column_input
\* is the typed column, <<>> when it is not a number
SaveResult(old_category_name, new_name, background, text, column_input, category_column, max_columns) ==
    [old_name |-> old_category_name,
     new_name |-> new_name,
     colors |-> IF background # <<>> /\ text # <<>>
                THEN <<[background |-> background, text |-> text]>> ELSE <<>>,
     column |-> Max2(1, Min2(max_columns, Get(column_input, category_column)))]

\* the colour inputs as typed: colors is an optional pair of optional strings
TypedBackground(colors) == IF colors = <<>> THEN <<>> ELSE colors[1].background

TypedText(colors) == IF colors = <<>> THEN <<>> ELSE colors[1].text

\* EditCategoryScreen.__init__: the column the dialog starts with
DialogColumn(s, old_name) ==
    Max2(1, Min2(Max2(1, s.column_count),
                 IF IndexOf(s.menu_data, old_name) = 0 THEN 1
                 ELSE Get(s.menu_data[IndexOf(s.menu_data, old_name)].column, 1)))

\* the dialog opened on the header under the cursor shows an error on save;
\* new_name is the typed name, <<>> when the field is left as it was filled
SaveRejected(s, new_name, colors) ==
    SaveError(CurrentEntry(s).name, Names(s.menu_data),
              Get(new_name, CurrentEntry(s).name),
              normalize_hex_color(TypedBackground(colors)),
              normalize_hex_color(TypedText(colors))) # ""

\* action_edit_item.handle_category_edit_result for a "save" result
handle_category_edit_result(s, result) ==
    update_category_details(s, result.old_name, result.new_name, result.colors,
                            <<result.column>>)

\* action_edit_item on a category header, the dialog saved with these inputs
edit_category(s, new_name, colors, column) ==
    IF SaveRejected(s, new_name, colors) THEN s
    ELSE handle_category_edit_result(
             s,
             SaveResult(CurrentEntry(s).name,
                        Get(new_name, CurrentEntry(s).name),
                        normalize_hex_color(TypedBackground(colors)),
                        normalize_hex_color(TypedText(colors)),
                        column,
                        DialogColumn(s, CurrentEntry(s).name),
                        Max2(1, s.column_count)))

\* action_execute_item: the cursor is on an item whose cmd is truthy, so
\* run_external_command is called
ExecuteRuns(s) ==
    /\ HasCurrent(s)
    /\ CurrentEntry(s).type = "item"
    /\ CurrentEntry(s).data[1].cmd # ""

\* action_execute_item: pause_setting, False when the item has no pause key
PauseSetting(s) == Get(CurrentEntry(s).data[1].pause, FALSE)

\* action_execute_item where it runs no command: a header is toggled, an item
\* without a command and an index out of range are passed over
action_execute_item(s) ==
    IF HasCurrent(s) /\ CurrentEntry(s).type = "category"
    THEN action_toggle_category(s)
    ELSE s

\* a runner that prints the exit code and waits whatever the pause setting
AfterCommand_always(raised, pause) == IF raised THEN "running" ELSE "paused"

\* run_external_command: where the handler stands after subprocess.run
AfterCommand(raised, pause) ==
    IF raised THEN "running" ELSE IF pause THEN "paused" ELSE "running"

\* a set_column_count that saves whether or not anything changed
set_column_count_eager(s, count, apply_layout, persist, save_on_change) ==
    LET counted == [s EXCEPT !.column_count = clamp_column_count(count)]
        saved == save_menu_data(ensure_category_columns(counted))
    IN  IF apply_layout /\ s.mounted THEN update_menu_display(saved) ELSE saved

\* set_column_count, count being an integer
set_column_count(s, count, apply_layout, persist, save_on_change) ==
    LET normalized == clamp_column_count(count)
        changed == normalized # s.column_count
        counted == [s EXCEPT !.column_count = normalized]
        columns_changed == ColumnsChanged(counted)
        ensured == ensure_category_columns(counted)
        saved == IF persist \/ (save_on_change /\ (changed \/ columns_changed))
                 THEN save_menu_data(ensured) ELSE ensured
    IN  IF apply_layout /\ s.mounted THEN update_menu_display(saved) ELSE saved

\* the value set_column_count returns
SetColumnCountChanges(s, count) ==
    \/ clamp_column_count(count) # s.column_count
    \/ ColumnsChanged([s EXCEPT !.column_count = clamp_column_count(count)])

\* apply_theme, as far as the menu state goes
apply_theme(s) == update_highlighting(update_menu_display(s))

\* handle_settings_result: the display update after the title is set
show_settings(s, theme_changed, columns_changed) ==
    IF theme_changed THEN apply_theme(s)
    ELSE IF columns_changed THEN update_menu_display(s)
    ELSE s

\* handle_settings_result: the title is set once the column count is
set_title(s, new_title) == [s EXCEPT !.app_title = new_title]

\* action_open_settings.handle_settings_result for an "apply" result
handle_settings_result(s, new_title, theme_changed, new_columns) ==
    save_menu_data(
        show_settings(
            set_title(set_column_count(s, new_columns, ~theme_changed, FALSE, FALSE),
                      new_title),
            theme_changed,
            SetColumnCountChanges(s, new_columns)))

----------------------------------------------------------------------------
(* Construction: __init__, load_menu_data, create_default_menu, on_mount *)

\* a default menu that is built in memory and not written
create_default_menu_unsaved(s) ==
    [s EXCEPT !.column_count = 1,
              !.menu_data = DefaultTree,
              !.custom_colors = DEFAULT_COLOR_PAIRS]

\* create_default_menu
create_default_menu(s) ==
    save_menu_data([s EXCEPT !.column_count = 1,
                             !.menu_data = DefaultTree,
                             !.custom_colors = DEFAULT_COLOR_PAIRS])

\* load_menu_data: the palette entry made of a stored entry and its sanitized pair
ColorEntry(entry, pair, idx) ==
    IF pair = <<>> THEN <<>>
    ELSE <<[name |-> <<IF entry.name # <<>> /\ entry.name[1] # "" THEN entry.name[1]
                       ELSE "Color " \o ToString(idx)>>,
            background |-> pair[1].background,
            text |-> pair[1].text]>>

\* the loop of load_menu_data over data['custom_colors']
RECURSIVE LoadedColors(_, _)
LoadedColors(entries, idx) ==
    IF entries = <<>> THEN <<>>
    ELSE ColorEntry(Head(entries), sanitize_color_pair(<<Head(entries)>>), idx)
         \o LoadedColors(Tail(entries), idx + 1)

\* load_menu_data raises on this record: a category that is not a JSON object
\* makes ensure_category_columns raise AttributeError
LoadRaises(data) ==
    \E i \in 1..Len(data.categories) : ~data.categories[i].isdict

\* the write-back of the record after the legacy theme key was dropped: the
\* categories are the dicts ensure_category_columns has changed in place
ThemeCleanup(s, data) ==
    [s EXCEPT !.storage =
                  [data EXCEPT !.categories =
                                   [i \in 1..Len(s.menu_data) |-> ToJson(s.menu_data[i])],
                               !.app_settings[1].theme = FALSE],
              !.writes = @ + 1]

\* a load that does not read the stored column count
SettingsColumns_ignored(settings) == 1

\* settings.get('columns', 1)
SettingsColumns(settings) == Get(settings.columns, 1)

\* load_menu_data: the palette is replaced when an entry was loaded
read_colors(s, loaded_colors) ==
    IF loaded_colors # <<>> THEN [s EXCEPT !.custom_colors = loaded_colors] ELSE s

\* load_menu_data: the title is taken when app_settings holds one
read_title(s, settings) ==
    IF settings # <<>> /\ settings[1].title # <<>>
    THEN [s EXCEPT !.app_title = settings[1].title[1]]
    ELSE s

\* load_menu_data: self.menu_data = data.get('categories', {})
read_categories(s, data) ==
    assign_menu_data(s, s.menu_data,
                     [i \in 1..Len(data.categories) |-> FromJson(data.categories[i])])

\* load_menu_data: the column count is set when app_settings is present
read_columns(s, settings) ==
    IF settings # <<>>
    THEN set_column_count(s, SettingsColumns(settings[1]), FALSE, FALSE, FALSE)
    ELSE s

\* load_menu_data: a legacy theme key is dropped and the record written back
read_theme(s, data) ==
    IF data.app_settings # <<>> /\ data.app_settings[1].theme
    THEN ThemeCleanup(s, data) ELSE s

\* load_menu_data: the closing ensure_category_columns, saved when it changed
\* a column
ensure_and_save(s) ==
    IF ColumnsChanged(s) THEN save_menu_data(ensure_category_columns(s)) ELSE s

\* load_menu_data on a record that parsed, the palette and the title read
load_record(s, data) ==
    IF LoadRaises(data) THEN create_default_menu(s)
    ELSE ensure_and_save(
             read_theme(read_columns(read_categories(s, data), data.app_settings),
                        data))

\* load_menu_data, from the state __init__ has set up
load_menu_data(s) ==
    IF s.storage.kind = "missing" THEN create_default_menu(s)
    ELSE IF s.storage.kind = "corrupt" THEN create_default_menu(s)
    ELSE load_record(
             read_title(read_colors(s, LoadedColors(s.storage.custom_colors, 1)),
                        s.storage.app_settings),
             s.storage)

\* how load_menu_data ends on the file it finds
LoadOutcome(file) ==
    IF file.kind = "missing" THEN "load_missing"
    ELSE IF file.kind = "corrupt" \/ LoadRaises(file) THEN "load_failed"
    ELSE "load_read"

\* the state __init__ sets up before it calls load_menu_data
Constructed(file) ==
    State(FALSE, <<>>, 1, DEFAULT_TITLE, DEFAULT_COLOR_PAIRS, <<>>, 0, file, 0)

\* on_mount: compose has created menu_container
on_mount(s) ==
    LET mounted == [s EXCEPT !.mounted = TRUE]
    IN  [update_menu_display(apply_theme(mounted)) EXCEPT !.current_index = 0]

----------------------------------------------------------------------------
(* Directory scan: scan_and_add_bin_executables.  A command and a file name *)
(* are strings; a file of ./bin is its name with what is_file() and         *)
(* os.access(X_OK) answer for it.                                           *)

MANAGED_PATH == "~/.local/menu-maker/bin/"

BIN_CATEGORY == "Bin Executables"

File(name, is_file, executable) ==
    [name |-> name, is_file |-> is_file, executable |-> executable]

CharAt(text, i) == SubSeq(text, i, i)

\* str.strip() on a string
RECURSIVE strip(_)
strip(text) ==
    IF text = "" THEN text
    ELSE IF CharAt(text, 1) = " " THEN strip(SubSeq(text, 2, Len(text)))
    ELSE IF CharAt(text, Len(text)) = " " THEN strip(SubSeq(text, 1, Len(text) - 1))
    ELSE text

\* str.startswith
startswith(text, prefix) ==
    Len(text) >= Len(prefix) /\ SubSeq(text, 1, Len(prefix)) = prefix

\* the last component of a path that ends with no slash
RECURSIVE final_component(_)
final_component(path) ==
    IF path = "" \/ CharAt(path, Len(path)) = "/" THEN ""
    ELSE final_component(SubSeq(path, 1, Len(path) - 1)) \o CharAt(path, Len(path))

\* Path(path).name: trailing slashes do not count
RECURSIVE path_name(_)
path_name(path) ==
    IF path # "" /\ CharAt(path, Len(path)) = "/"
    THEN path_name(SubSeq(path, 1, Len(path) - 1))
    ELSE final_component(path)

LOWER_CASE == "abcdefghijklmnopqrstuvwxyz"

UPPER_CASE == "ABCDEFGHIJKLMNOPQRSTUVWXYZ"

\* the rank of a letter in the alphabet, 0 for any other character
LetterRank(c) ==
    IF \E k \in 1..26 : c \in {CharAt(LOWER_CASE, k), CharAt(UPPER_CASE, k)}
    THEN CHOOSE k \in 1..26 : c \in {CharAt(LOWER_CASE, k), CharAt(UPPER_CASE, k)}
    ELSE 0

\* filename.replace('_', ' ').replace('-', ' ')
RECURSIVE replace_separators(_)
replace_separators(text) ==
    IF text = "" THEN ""
    ELSE (IF CharAt(text, 1) \in {"_", "-"} THEN " " ELSE CharAt(text, 1))
            \o replace_separators(SubSeq(text, 2, Len(text)))

\* str.title(): a letter is upper case after a character that is no letter,
\* lower case after a letter
RECURSIVE title_from(_, _)
title_from(text, cased) ==
    IF text = "" THEN ""
    ELSE LET c == CharAt(text, 1)
             k == LetterRank(c)
         IN  (IF k = 0 THEN c
              ELSE IF cased THEN CharAt(LOWER_CASE, k) ELSE CharAt(UPPER_CASE, k))
                \o title_from(SubSeq(text, 2, Len(text)), k # 0)

str_title(text) == title_from(text, FALSE)

AllItems(tree) == UNION {Range(tree[i].items) : i \in 1..Len(tree)}

\* the stripped, non-empty commands of the resident items
existing_commands(tree) == {strip(item.cmd) : item \in AllItems(tree)} \ {""}

\* the file names of the commands that start with the managed path
existing_files(tree) ==
    {path_name(cmd) : cmd \in {c \in existing_commands(tree) : startswith(c, MANAGED_PATH)}}

new_cmd(filename) == MANAGED_PATH \o filename

\* the item dict built for a moved file: it has no pause key
new_executable(filename) ==
    Item(str_title(replace_separators(filename)), new_cmd(filename),
         "Executable: " \o filename, BIN_CATEGORY, <<>>)

\* a scan that takes every executable regular file for new
Discovered_again(s, file) == file.is_file /\ file.executable

\* the scan loop reaches the move for this file: it is an executable regular
\* file whose name and whose managed command no resident item refers to
Discovered(s, file) ==
    /\ file.is_file
    /\ file.executable
    /\ file.name \notin existing_files(s.menu_data)
    /\ new_cmd(file.name) \notin existing_commands(s.menu_data)

\* the names of the files the move step is run for
DiscoveredNames(s, files) == {file.name : file \in {f \in files : Discovered(s, f)}}

\* what the move step of one file comes to: shutil.move and chmod return, or
\* shutil.move raises and the file stays, or chmod raises on the moved file
MoveOutcomes == {"moved", "move_failed", "chmod_failed"}

\* a scan whose loop ends at the first file that cannot be moved
RECURSIVE new_executables_abort(_, _, _)
new_executables_abort(s, listing, outcome) ==
    IF listing = <<>> THEN <<>>
    ELSE IF ~Discovered(s, Head(listing))
    THEN new_executables_abort(s, Tail(listing), outcome)
    ELSE IF outcome[Head(listing).name] # "moved" THEN <<>>
    ELSE <<new_executable(Head(listing).name)>>
            \o new_executables_abort(s, Tail(listing), outcome)

\* the scan loop over ./bin in the order iterdir() lists it: one item for
\* each discovered file whose move step went through
RECURSIVE new_executables(_, _, _)
new_executables(s, listing, outcome) ==
    IF listing = <<>> THEN <<>>
    ELSE (IF Discovered(s, Head(listing)) /\ outcome[Head(listing).name] = "moved"
          THEN <<new_executable(Head(listing).name)>> ELSE <<>>)
            \o new_executables(s, Tail(listing), outcome)

\* the files still in ./bin after the loop
remaining(s, files, outcome) ==
    {file \in files : ~Discovered(s, file) \/ outcome[file.name] = "move_failed"}

\* "Bin Executables" is assigned as an empty category, without a column, when
\* the tree has none
ensure_bin_category(s) ==
    IF BIN_CATEGORY \in Names(s.menu_data) THEN s
    ELSE assign_menu_data(s, s.menu_data,
             Append(s.menu_data, Category(BIN_CATEGORY, TRUE, <<>>, <<>>, <<>>)))

\* the loop "for new_item in new_executables: self.add_new_item(new_item)"
RECURSIVE add_new_items(_, _)
add_new_items(s, items) ==
    IF items = <<>> THEN s ELSE add_new_items(add_new_item(s, Head(items)), Tail(items))

\* scan_and_add_bin_executables when ./bin is a directory
scan_and_add_bin_executables(s, listing, outcome) ==
    IF new_executables(s, listing, outcome) = <<>> THEN s
    ELSE add_new_items(ensure_bin_category(s), new_executables(s, listing, outcome))

----------------------------------------------------------------------------
(* The palette of the category dialog: EditCategoryScreen.action_add_color *)

\* str(n) for a count below ten
Decimal(n) == CharAt("0123456789", n + 1)

\* the name given to a pair added without a name
CustomName(available_colors) == "Custom " \o Decimal(Len(available_colors) + 1)

\* action_add_color: the position of the first entry with this pair, 0 if none
PairPosition(available_colors, background, text) ==
    FirstIndex(available_colors,
               LAMBDA color : color.background = background /\ color.text = text)

\* action_add_color once both colours are valid
AddedColor(available_colors, background, text, name) ==
    IF PairPosition(available_colors, background, text) # 0
    THEN [available_colors EXCEPT
             ![PairPosition(available_colors, background, text)].name = <<name>>]
    ELSE Append(available_colors,
                [name |-> <<name>>, background |-> background, text |-> text])

\* an add that appends whatever the list holds
action_add_color_append(available_colors, background_input, text_input, name_input) ==
    Append(available_colors,
           [name |-> <<name_input>>,
            background |-> normalize_hex_color(<<background_input>>),
            text |-> normalize_hex_color(<<text_input>>)])

\* action_add_color: self.available_colors after the handler
action_add_color(available_colors, background_input, text_input, name_input) ==
    IF normalize_hex_color(<<background_input>>) = <<>>
            \/ normalize_hex_color(<<text_input>>) = <<>>
    THEN available_colors
    ELSE AddedColor(available_colors,
                    normalize_hex_color(<<background_input>>),
                    normalize_hex_color(<<text_input>>),
                    IF strip(name_input) # "" THEN strip(name_input)
                    ELSE CustomName(available_colors))

----------------------------------------------------------------------------
(* Inputs: the values the handlers are called with.  The machine is checked *)
(* on three slices of its input domain: Spec varies the items and the       *)
(* category names, SpecLayout the columns and the colours, SpecLoad the     *)
(* file the process finds when it starts.                                   *)

CatNames == {"System Tools", "A", "B"}

\* what EditItemScreen.action_save hands back: stripped fields, a boolean pause
DialogItem(label, category, pause) == Item(label, "htop", "", category, <<pause>>)

ItemInputs ==
    {DialogItem("L1", c, TRUE) : c \in CatNames} \cup
    {DialogItem("System Monitor", "System Tools", FALSE)}

\* the old item update_item is called with
OldItems == ItemInputs \cup {DefaultItem}

\* a colour pair as typed, to be normalized (upper case, no leading #)
TypedPair ==
    [background |-> << <<"1", "A", "2", "b", "3", "C">> >>,
     text |-> << Hex("f", "f", "f", "f", "f", "f") >>]

\* a pair with the background only
HalfPair == [background |-> << Hex("1", "a", "2", "b", "3", "c") >>, text |-> <<>>]

\* a pair whose background is typed as a prefixed literal
PrefixedPair ==
    [background |-> << <<"0", "x", "1", "2", "a", "b">> >>,
     text |-> << Hex("f", "f", "f", "f", "f", "f") >>]

\* what is entered in the category dialog: the name (<<>> when left as filled
\* in), the colour inputs and the column input
Edit(new_name, colors, column) ==
    [new_name |-> new_name, colors |-> colors, column |-> column]

\* renames (and the blank name), no colours, the column left as filled in
RenameEdits == {Edit(<<n>>, <<>>, <<>>) : n \in CatNames \cup {""}}

\* recolouring and moving between columns, the name kept
LayoutEdits ==
    {Edit(<<>>, c, k) : c \in {<<>>, <<TypedPair>>}, k \in {<<>>, <<0>>, <<2>>}}
    \cup {Edit(<<>>, <<c>>, <<>>) : c \in {HalfPair, PrefixedPair}}

\* renames together with colours and a column; with A or B resident the name
\* is taken
ClashEdits == {Edit(<<n>>, <<TypedPair>>, <<2>>) : n \in {"A", "B"}}

\* the column input alone
ColumnEdits == {Edit(<<>>, <<>>, column) : column \in {<<>>, <<0>>, <<9>>}}

LayoutItems == {DialogItem("L1", c, TRUE) : c \in {"System Tools", "A"}}

LayoutCounts == {0, 9}

\* the files the first start may find
FileA(column, items) == ToJson(Category("A", TRUE, column, <<>>, items))

FileB(column, items) == ToJson(Category("B", FALSE, column, <<>>, items))

Settings(title, columns, theme) ==
    <<[title |-> title, columns |-> columns, theme |-> theme]>>

\* an empty category, and an item whose category field names another category
StrayFile ==
    Stored("record", <<FileA(<<1>>, <<>>),
                       FileB(<<>>, <<DialogItem("L1", "A", TRUE)>>)>>,
           Settings(<<DEFAULT_TITLE>>, <<1>>, FALSE), <<>>)

\* column 5 with columns = 2
WideFile ==
    Stored("record", <<FileA(<<5>>, <<DialogItem("L1", "A", TRUE)>>)>>,
           Settings(<<"T2">>, <<2>>, FALSE), DEFAULT_COLOR_PAIRS)

\* the same tree without app_settings
BareFile ==
    Stored("record", <<FileA(<<5>>, <<DialogItem("L1", "A", TRUE)>>)>>, <<>>, <<>>)

\* a legacy record that still has the theme key, and one typed colour
LegacyFile ==
    Stored("record", <<FileA(<<5>>, <<DialogItem("L1", "A", TRUE)>>)>>,
           Settings(<<>>, <<9>>, TRUE),
           <<[name |-> <<>>, background |-> TypedPair.background,
              text |-> TypedPair.text]>>)

\* a category that is not a JSON object
BrokenFile ==
    Stored("record", <<[FileA(<<1>>, <<>>) EXCEPT !.isdict = FALSE]>>,
           Settings(<<"T2">>, <<2>>, FALSE), <<>>)

\* items whose cmd is empty and whose cmd is one space
BlankFile ==
    Stored("record", <<FileA(<<1>>, <<Item("E", "", "", "A", <<TRUE>>),
                                      Item("W", " ", "", "A", <<FALSE>>)>>)>>,
           Settings(<<DEFAULT_TITLE>>, <<1>>, FALSE), <<>>)

LoadFiles ==
    {NoFile, CorruptFile, WideFile, BareFile, LegacyFile, BrokenFile, StrayFile, BlankFile}

\* what may lie in ./bin: two executables, a file without the execute
\* permission, a subdirectory
ScanFiles ==
    {File("f1", TRUE, TRUE), File("my_tool", TRUE, TRUE),
     File("notes", TRUE, FALSE), File("lib", FALSE, TRUE)}

\* a record written by hand: the command of its item is the managed path of
\* f1 with blanks around it
ManagedFile ==
    Stored("record",
           <<ToJson(Category("Tools", TRUE, <<1>>, <<>>,
                             <<Item("F1", " ~/.local/menu-maker/bin/f1 ", "", "Tools",
                                    <<>>)>>))>>,
           Settings(<<DEFAULT_TITLE>>, <<1>>, FALSE), <<>>)

\* the orders iterdir() may list the files in
Listings(files) ==
    {listing \in [1..Cardinality(files) -> files] : Range(listing) = files}

----------------------------------------------------------------------------
(* The state machine *)

Op(name, s) == [op |-> name, writes |-> s.writes]

\* the variables take the values of the state a handler ends in
Becomes(s) ==
    /\ menu_data' = s.menu_data
    /\ column_count' = s.column_count
    /\ app_title' = s.app_title
    /\ custom_colors' = s.custom_colors
    /\ display_items' = s.display_items
    /\ current_index' = s.current_index
    /\ storage' = s.storage

\* no function call under way
NoCall == [fn |-> "none", arg |-> <<>>, result |-> <<>>, done |-> FALSE]

\* the process has not started; the file is one of files
InitOn(files) ==
    /\ phase = "off"
    /\ storage \in files
    /\ menu_data = <<>>
    /\ column_count = 1
    /\ app_title = DEFAULT_TITLE
    /\ custom_colors = DEFAULT_COLOR_PAIRS
    /\ display_items = <<>>
    /\ current_index = 0
    /\ lastOp = [op |-> "none", writes |-> 0]
    /\ call = NoCall
    /\ bin_dir = <<>>

\* MenuMaker.__init__: the process starts and loads the menu record
Start ==
    /\ UNCHANGED <<call, bin_dir>>
    /\ phase = "off"
    /\ phase' = "constructed"
    /\ \E r \in {load_menu_data(Constructed(storage))} :
            Becomes(r) /\ lastOp' = Op(LoadOutcome(storage), r)

\* on_mount
Mount ==
    /\ UNCHANGED <<call, bin_dir>>
    /\ phase = "constructed"
    /\ phase' = "running"
    /\ \E r \in {on_mount(Current)} : Becomes(r) /\ lastOp' = Op("mount", r)

\* action_cursor_up
CursorUp ==
    /\ UNCHANGED <<call, bin_dir>>
    /\ phase = "running"
    /\ \E r \in {move_cursor(Current, -1)} : Becomes(r) /\ lastOp' = Op("up", r)
    /\ UNCHANGED phase

\* action_cursor_down
CursorDown ==
    /\ UNCHANGED <<call, bin_dir>>
    /\ phase = "running"
    /\ \E r \in {move_cursor(Current, 1)} : Becomes(r) /\ lastOp' = Op("down", r)
    /\ UNCHANGED phase

\* add_new_item, while the tree holds fewer than bound items
AddItemUpTo(item, bound) ==
    /\ UNCHANGED <<call, bin_dir>>
    /\ phase = "running"
    /\ TotalItems(menu_data) < bound
    /\ \E r \in {add_new_item(Current, item)} : Becomes(r) /\ lastOp' = Op("add", r)
    /\ UNCHANGED phase

\* add_new_item
AddItem(item) == AddItemUpTo(item, MaxItems)

\* update_item
UpdateItem(old_item, new_item) ==
    /\ UNCHANGED <<call, bin_dir>>
    /\ phase = "running"
    /\ \E r \in {update_item(Current, old_item, new_item)} :
            /\ Becomes(r)
            /\ lastOp' = Op(IF FoundCategory(menu_data, old_item) = 0 THEN "update_miss"
                            ELSE "update", r)
    /\ UNCHANGED phase

\* action_delete_item
DeleteItem ==
    /\ UNCHANGED <<call, bin_dir>>
    /\ phase = "running"
    /\ \E r \in {action_delete_item(Current)} :
            /\ Becomes(r)
            /\ lastOp' = Op(IF DeleteFinds(Current) THEN "delete" ELSE "delete_miss", r)
    /\ UNCHANGED phase

\* action_toggle_category
ToggleCategory ==
    /\ UNCHANGED <<call, bin_dir>>
    /\ phase = "running"
    /\ \E r \in {action_toggle_category(Current)} :
            /\ Becomes(r)
            /\ lastOp' = Op(IF ToggleApplies(Current) THEN "toggle" ELSE "toggle_skip", r)
    /\ UNCHANGED phase

\* action_edit_item on a category header: the dialog is saved with a name
\* (<<>> when left as filled in), colour inputs and a column input
UpdateCategory(new_name, colors, column) ==
    /\ UNCHANGED <<call, bin_dir>>
    /\ phase = "running"
    /\ HasCurrent(Current)
    /\ CurrentEntry(Current).type = "category"
    /\ \E r \in {edit_category(Current, new_name, colors, column)} :
            /\ Becomes(r)
            /\ lastOp' = Op(IF SaveRejected(Current, new_name, colors)
                            THEN "category_rejected" ELSE "category", r)
    /\ UNCHANGED phase

\* set_column_count with its default flags
SetColumnCount(count) ==
    /\ UNCHANGED <<call, bin_dir>>
    /\ phase = "running"
    /\ \E r \in {set_column_count(Current, count, TRUE, FALSE, TRUE)} :
            Becomes(r) /\ lastOp' = Op("columns", r)
    /\ UNCHANGED phase

\* the settings dialog is applied
ApplySettings(title, theme_changed, count) ==
    /\ UNCHANGED <<call, bin_dir>>
    /\ phase = "running"
    /\ \E r \in {handle_settings_result(Current, title, theme_changed, count)} :
            Becomes(r) /\ lastOp' = Op("settings", r)
    /\ UNCHANGED phase

\* what the handlers of the running application read and write, apart from
\* the position of run_external_command
menu_state ==
    <<menu_data, column_count, app_title, custom_colors, display_items,
      current_index, storage>>

\* action_execute_item; with a command under the cursor it enters the with block
\* of run_external_command and the display is suspended
ExecuteItem ==
    /\ UNCHANGED <<call, bin_dir>>
    /\ phase = "running"
    /\ IF ExecuteRuns(Current)
       THEN /\ phase' = "suspended"
            /\ lastOp' = Op("execute", Current)
            /\ UNCHANGED menu_state
       ELSE /\ \E r \in {action_execute_item(Current)} :
                    /\ Becomes(r)
                    /\ lastOp' = Op(IF ToggleApplies(Current) THEN "execute_toggle"
                                    ELSE "execute_skip", r)
            /\ UNCHANGED phase

\* run_external_command: the screen is cleared, the banner printed and
\* subprocess.run called
RunCommand ==
    /\ UNCHANGED <<call, bin_dir>>
    /\ phase = "suspended"
    /\ phase' = "command"
    /\ lastOp' = Op("command", Current)
    /\ UNCHANGED menu_state

\* run_external_command: subprocess.run returns or raises; with pause set the
\* exit code is printed and input() called, raising leaves through the except
CommandEnds(raised) ==
    /\ UNCHANGED <<call, bin_dir>>
    /\ phase = "command"
    /\ phase' = AfterCommand(raised, PauseSetting(Current))
    /\ lastOp' = Op(IF raised THEN "command_raised" ELSE "command_done", Current)
    /\ UNCHANGED menu_state

\* a runner that comes back with the cursor on the first entry
Acknowledge_reset(raised) ==
    /\ UNCHANGED <<call, bin_dir>>
    /\ phase = "paused"
    /\ phase' = "running"
    /\ lastOp' = Op(IF raised THEN "acknowledge_raised" ELSE "acknowledge", Current)
    /\ current_index' = 0
    /\ UNCHANGED <<menu_data, column_count, app_title, custom_colors, display_items,
                   storage>>

\* run_external_command: input() returns or raises
Acknowledge(raised) ==
    /\ UNCHANGED <<call, bin_dir>>
    /\ phase = "paused"
    /\ phase' = "running"
    /\ lastOp' = Op(IF raised THEN "acknowledge_raised" ELSE "acknowledge", Current)
    /\ UNCHANGED menu_state

\* action_exit_app: the process ends; the variables of the resident state keep
\* what it held last, the file stays
Exit ==
    /\ UNCHANGED <<call, bin_dir>>
    /\ phase = "running"
    /\ phase' = "off"
    /\ display_items' = <<>>
    /\ current_index' = 0
    /\ lastOp' = [op |-> "exit", writes |-> 0]
    /\ UNCHANGED <<menu_data, column_count, app_title, custom_colors, storage>>

\* a file is put into ./bin from outside
DropFile(file) ==
    /\ UNCHANGED call
    /\ phase = "running"
    /\ bin_dir # <<>>
    /\ \A other \in bin_dir[1] : other.name # file.name
    /\ bin_dir' = <<bin_dir[1] \cup {file}>>
    /\ lastOp' = [op |-> "drop", writes |-> 0]
    /\ UNCHANGED <<phase, menu_state>>

\* action_scan_bin_directory
ScanBin ==
    /\ UNCHANGED call
    /\ phase = "running"
    /\ IF bin_dir = <<>>
       THEN /\ lastOp' = [op |-> "scan_absent", writes |-> 0]
            /\ UNCHANGED <<menu_state, bin_dir>>
       ELSE \E listing \in Listings(bin_dir[1]) :
            \E outcome \in [DiscoveredNames(Current, bin_dir[1]) -> MoveOutcomes] :
              /\ \E r \in {scan_and_add_bin_executables(Current, listing, outcome)} :
                    /\ Becomes(r)
                    /\ lastOp' = Op(IF r.writes = 0 THEN "scan_none" ELSE "scan", r)
              /\ bin_dir' = <<remaining(Current, bin_dir[1], outcome)>>
    /\ UNCHANGED phase

Init == InitOn({NoFile, StrayFile})

Next ==
    \/ Start
    \/ Mount
    \/ CursorUp
    \/ CursorDown
    \/ \E item \in ItemInputs : AddItem(item)
    \/ \E old_item \in OldItems, new_item \in ItemInputs : UpdateItem(old_item, new_item)
    \/ DeleteItem
    \/ ToggleCategory
    \/ \E e \in RenameEdits : UpdateCategory(e.new_name, e.colors, e.column)
    \/ SetColumnCount(1)
    \/ \E theme_changed \in BOOLEAN : ApplySettings(DEFAULT_TITLE, theme_changed, 1)
    \/ Exit

Spec == Init /\ [][Next]_vars

InitLayout == InitOn({NoFile})

NextLayout ==
    \/ Start
    \/ Mount
    \/ CursorUp
    \/ CursorDown
    \/ \E item \in LayoutItems : AddItem(item)
    \/ \E old_item \in LayoutItems \cup {DefaultItem}, new_item \in LayoutItems :
            UpdateItem(old_item, new_item)
    \/ DeleteItem
    \/ ToggleCategory
    \/ \E e \in LayoutEdits : UpdateCategory(e.new_name, e.colors, e.column)
    \/ \E count \in LayoutCounts : SetColumnCount(count)
    \/ \E theme_changed \in BOOLEAN, count \in LayoutCounts :
            ApplySettings(DEFAULT_TITLE, theme_changed, count)
    \/ Exit

SpecLayout == InitLayout /\ [][NextLayout]_vars

InitLoad == InitOn(LoadFiles)

NextLoad ==
    \/ Start
    \/ Mount
    \/ CursorUp
    \/ CursorDown
    \/ AddItem(DialogItem("L1", "A", TRUE))
    \/ \E old_item \in {DefaultItem, DialogItem("L1", "A", TRUE)} :
            UpdateItem(old_item, DialogItem("L1", "B", TRUE))
    \/ DeleteItem
    \/ ToggleCategory
    \/ \E e \in ColumnEdits : UpdateCategory(e.new_name, e.colors, e.column)
    \/ \E count \in {0, 9} : SetColumnCount(count)
    \/ \E title \in {DEFAULT_TITLE, "T2"} : ApplySettings(title, FALSE, 1)
    \/ ExecuteItem
    \/ RunCommand
    \/ \E raised \in BOOLEAN : CommandEnds(raised)
    \/ \E raised \in BOOLEAN : Acknowledge(raised)
    \/ Exit

SpecLoad == InitLoad /\ [][NextLoad]_vars

\* the application is not started; a function is about to be called with arg
InitCall(fn, args) ==
    /\ phase = "off"
    /\ storage = NoFile
    /\ menu_data = <<>>
    /\ column_count = 1
    /\ app_title = DEFAULT_TITLE
    /\ custom_colors = DEFAULT_COLOR_PAIRS
    /\ display_items = <<>>
    /\ current_index = 0
    /\ lastOp = [op |-> "none", writes |-> 0]
    /\ call \in {[fn |-> fn, arg |-> a, result |-> <<>>, done |-> FALSE] : a \in args}
    /\ bin_dir = <<>>

\* the six characters after the marker, as typed
HexBodies ==
    { <<"1", "a", "2", "B", "3", "C">>, <<"a", "b", "c", "d", "e", "f">>,
      <<"A", "B", "C", "D", "E", "F">>, <<"1", "2", "3", "4", "5">>,
      <<"1", "2", "3", "4", "5", "6", "7">>, <<"z", "z", "z", "z", "z", "z">>,
      <<"+", "1", "2", "3", "4", "5">>, <<"-", "1", "2", "3", "4", "5">>,
      <<"0", "x", "1", "2", "a", "b">>, <<"0", "X", "1", "2", "A", "B">>,
      <<"1", "_", "2", "_", "3", "a">>, <<"_", "1", "2", "3", "4", "5">>,
      <<"1", "2", "3", "4", "5", "_">>, <<"1", "_", "_", "2", "3", "4">>,
      <<"1", "2", " ", "3", "4", "5">>, <<" ", "1", "2", "3", "4", "5">>,
      <<>> }

\* the strings normalize_hex_color is called with: a body with or without the
\* marker, with or without whitespace around it
HexInputs ==
    {pre \o body \o post : pre \in {<<>>, <<"#">>, <<" ">>, <<" ", "#">>},
                           body \in HexBodies,
                           post \in {<<>>, <<" ">>}}

\* normalize_hex_color is called with a string or with None
InitHex == InitCall("normalize_hex_color", {<<v>> : v \in HexInputs} \cup {<<>>})

\* normalize_hex_color returns
NormalizeHexColor ==
    /\ call.fn = "normalize_hex_color"
    /\ ~call.done
    /\ call' = [call EXCEPT !.result = normalize_hex_color(call.arg), !.done = TRUE]
    /\ UNCHANGED <<phase, menu_state, lastOp, bin_dir>>

NextHex == NormalizeHexColor

SpecHex == InitHex /\ [][NextHex]_vars

\* palette entries: a default under its own name, a default typed in upper
\* case without a name, a colour that is no default, an entry without text
PaletteEntries ==
    { DEFAULT_COLOR_PAIRS[1],
      [name |-> <<>>,
       background |-> << <<"#", "6", "F", "1", "D", "1", "B">> >>,
       text |-> << <<"#", "F", "F", "E", "5", "D", "9">> >>],
      [name |-> <<"Mine">>,
       background |-> <<Hex("1", "a", "2", "b", "3", "c")>>,
       text |-> <<Hex("f", "f", "f", "f", "f", "f")>>],
      [name |-> <<"Half">>,
       background |-> <<Hex("1", "a", "2", "b", "3", "c")>>,
       text |-> <<>>] }

\* the lists of available colours the dialog is opened with
Palettes ==
    UNION {[1..n -> PaletteEntries] : n \in 0..3}
        \cup {DEFAULT_COLOR_PAIRS}
        \cup {[i \in 1..4 |-> e] : e \in PaletteEntries}

InitPalette == InitCall("_build_palette_entries", Palettes)

\* _build_palette_entries returns
BuildPaletteEntries ==
    /\ call.fn = "_build_palette_entries"
    /\ ~call.done
    /\ call' = [call EXCEPT !.result = build_palette_entries(call.arg), !.done = TRUE]
    /\ UNCHANGED <<phase, menu_state, lastOp, bin_dir>>

NextPalette == BuildPaletteEntries

SpecPalette == InitPalette /\ [][NextPalette]_vars

\* a fourth slice: category edits that ask for a name, colours and a column at
\* once, on the tree of StrayFile and what the item handlers make of it
InitClash == InitOn({StrayFile})

NextClash ==
    \/ Start
    \/ Mount
    \/ CursorUp
    \/ CursorDown
    \/ \E c \in {"A", "B"} : AddItemUpTo(DialogItem("L1", c, TRUE), MaxItemsClash)
    \/ UpdateItem(DialogItem("L1", "A", TRUE), DialogItem("L1", "B", TRUE))
    \/ DeleteItem
    \/ \E e \in ColumnEdits \cup ClashEdits : UpdateCategory(e.new_name, e.colors, e.column)
    \/ SetColumnCount(2)
    \/ Exit

SpecClash == InitClash /\ [][NextClash]_vars

\* a fifth slice: the directory scan, on the default tree and on a tree whose
\* item already refers to a managed file
InitScan ==
    /\ phase = "off"
    /\ storage \in {NoFile, ManagedFile}
    /\ menu_data = <<>>
    /\ column_count = 1
    /\ app_title = DEFAULT_TITLE
    /\ custom_colors = DEFAULT_COLOR_PAIRS
    /\ display_items = <<>>
    /\ current_index = 0
    /\ lastOp = [op |-> "none", writes |-> 0]
    /\ call = NoCall
    /\ bin_dir \in {<<>>, <<{}>>}

NextScan ==
    \/ Start
    \/ Mount
    \/ CursorDown
    \/ DeleteItem
    \/ \E file \in ScanFiles : DropFile(file)
    \/ ScanBin
    \/ Exit

SpecScan == InitScan /\ [][NextScan]_vars

\* the colour pairs typed into the dialog: a new pair in upper case without
\* the marker, the same pair as it is stored, the first default in upper
\* case, a background that is no colour
TypedColors ==
    { [background |-> <<"1", "A", "2", "B", "3", "C">>,
       text |-> <<"F", "F", "F", "F", "F", "F">>],
      [background |-> Hex("1", "a", "2", "b", "3", "c"),
       text |-> Hex("f", "f", "f", "f", "f", "f")],
      [background |-> <<" ", "#", "0", "3", "4", "E", "6", "8">>,
       text |-> <<"#", "C", "A", "F", "0", "F", "8">>],
      [background |-> Hex("1", "a", "2", "b", "3", "c"),
       text |-> Hex("c", "a", "f", "0", "f", "8")],
      [background |-> <<"r", "e", "d">>, text |-> Hex("f", "f", "f", "f", "f", "f")] }

TypedNames == {"", " Mine "}

\* the lists the dialog is opened with: the application's custom_colors
StartColors ==
    { <<>>, DEFAULT_COLOR_PAIRS,
      << [name |-> <<"Color 1">>,
          background |-> <<Hex("1", "a", "2", "b", "3", "c")>>,
          text |-> <<Hex("f", "f", "f", "f", "f", "f")>>],
         [name |-> <<"Color 2">>,
          background |-> <<Hex("1", "a", "2", "b", "3", "c")>>,
          text |-> <<Hex("0", "0", "0", "0", "0", "0")>>] >> }

\* the arguments of one add: the list so far and what is typed
AddColorArgs(lists) ==
    {[available_colors |-> l, background |-> c.background, text |-> c.text, name |-> n] :
        l \in lists, c \in TypedColors, n \in TypedNames}

InitColors == InitCall("action_add_color", AddColorArgs(StartColors))

\* action_add_color returns
AddColor ==
    /\ call.fn = "action_add_color"
    /\ ~call.done
    /\ call' = [call EXCEPT !.result = action_add_color(call.arg.available_colors,
                                            call.arg.background, call.arg.text,
                                            call.arg.name),
                            !.done = TRUE]
    /\ UNCHANGED <<phase, menu_state, lastOp, bin_dir>>

\* the add button is pressed again in the same dialog
AddColorAgain ==
    /\ call.fn = "action_add_color"
    /\ call.done
    /\ \E arg \in AddColorArgs({call.result}) :
            call' = [call EXCEPT !.arg = arg, !.result = <<>>, !.done = FALSE]
    /\ UNCHANGED <<phase, menu_state, lastOp, bin_dir>>

NextColors == AddColor \/ AddColorAgain

SpecColors == InitColors /\ [][NextColors]_vars

----------------------------------------------------------------------------
(* Properties *)

\* the operations on items
ItemOps == {"add", "update", "update_miss", "delete", "delete_miss"}

\* every item's category field names the category that holds it
CategoryFieldsMatch(tree) ==
    \A k \in 1..Len(tree) : \A i \in 1..Len(tree[k].items) :
        tree[k].items[i].category = tree[k].name

\* the menu record on disk is the one save_menu_data would write now
Persisted == storage = MenuRecord(menu_data, app_title, column_count, custom_colors)

\* the category holds an item with the label and cmd of item
HoldsMatch(c, item) ==
    \E i \in 1..Len(c.items) : c.items[i].label = item.label /\ c.items[i].cmd = item.cmd

\* C1: after every add, update or delete of an item, found or not, no resident
\* category has an empty item list: a category whose last item was deleted or
\* moved away is gone from the tree.
C1_NoEmptyCategory ==
    (phase = "running" /\ lastOp.op \in ItemOps)
        => \A k \in 1..Len(menu_data) : menu_data[k].items # <<>>

\* C1 witness: a delete took the last item of the last category and the tree
\* is empty
C1_Witness ==
    phase = "running" /\ lastOp.op = "delete" /\ lastOp.writes > 0 /\ menu_data = <<>>

\* C2: an add, update, delete or rename applied to a tree in which every item's
\* category field names its category leaves a tree with the same property; a
\* rename rewrites the field of every item of the renamed category.
C2_CategoryFieldKept ==
    [][(/\ phase = "running"
        /\ CategoryFieldsMatch(menu_data)
        /\ lastOp'.op \in ItemOps \cup {"category", "category_rejected"})
            => CategoryFieldsMatch(menu_data')]_vars

\* C2 witness: a rename has moved the default item, which was created under
\* "System Tools", to the key "B", and its category field reads "B"
C2_Witness ==
    /\ phase = "running"
    /\ lastOp.op = "category"
    /\ \E k \in 1..Len(menu_data) :
            /\ menu_data[k].name = "B"
            /\ [DefaultItem EXCEPT !.category = "B"] \in Range(menu_data[k].items)

\* C3: once the record is loaded, and after every operation since, the column
\* count is within 1..MAX_COLUMNS and the column of every resident category
\* (1 when the key is absent) is within 1..column_count.
C3_ColumnsInRange ==
    phase # "off"
        => /\ column_count \in 1..MAX_COLUMNS
           /\ \A k \in 1..Len(menu_data) : Get(menu_data[k].column, 1) \in 1..column_count

\* C3 witness: a column count above the limit was asked for and the count is
\* the limit, with a category resident
C3_Witness ==
    /\ phase = "running"
    /\ lastOp.op = "columns"
    /\ column_count = MAX_COLUMNS
    /\ menu_data # <<>>

\* C4: when load has read a well-formed record, the stored categories carry the
\* same column as the resident ones, clamped values included.
C4_LoadWritesClampBack ==
    (phase = "constructed" /\ lastOp.op = "load_read")
        => /\ storage.kind = "record"
           /\ Len(storage.categories) = Len(menu_data)
           /\ \A k \in 1..Len(menu_data) :
                    storage.categories[k].column = menu_data[k].column

\* C5: after an add, a found update, a found delete, an edit of a resident
\* category, a toggle, and a set_column_count that changed the count or a
\* category's column, the record on disk is the resident state.
C5_WriteThrough ==
    [][(/\ phase = "running"
        /\ \/ lastOp'.op \in {"add", "update", "delete", "category", "toggle"}
           \/ /\ lastOp'.op = "columns"
              /\ (column_count' # column_count \/ menu_data' # menu_data))
            => Persisted']_vars

\* C5 witness: a toggle has collapsed a category and the record on disk holds
\* the collapsed flag
C5_Witness ==
    /\ phase = "running"
    /\ lastOp.op = "toggle"
    /\ \E k \in 1..Len(menu_data) :
            /\ ~menu_data[k].expanded
            /\ Len(storage.categories) >= k
            /\ ~storage.categories[k].expanded

\* C6: a start that loads the record the last run saved from its resident state
\* ends with the tree (order, items, expanded flags, columns, colours) and the
\* column count that run had.
C6_RoundTrip ==
    [][(/\ phase = "off"
        /\ lastOp.op = "exit"
        /\ Persisted
        /\ phase' = "constructed")
            => (menu_data' = menu_data /\ column_count' = column_count)]_vars

\* C6 witness: a record with two categories, one collapsed, one coloured, and
\* the column count at the limit has been loaded
C6_Witness ==
    /\ phase = "constructed"
    /\ lastOp.op = "load_read"
    /\ column_count = MAX_COLUMNS
    /\ Len(menu_data) = 2
    /\ \E k \in 1..Len(menu_data) : ~menu_data[k].expanded
    /\ \E k \in 1..Len(menu_data) : menu_data[k].colors # <<>>

\* C7: a start that finds no stored record ends with exactly one category,
\* "System Tools", in column 1 and expanded, holding the one item "System
\* Monitor", with a column count of 1, and the record on disk holds that tree.
C7_DefaultOnMissing ==
    (phase = "constructed" /\ lastOp.op = "load_missing")
        => /\ Len(menu_data) = 1
           /\ menu_data[1].name = "System Tools"
           /\ menu_data[1].column = <<1>>
           /\ menu_data[1].expanded
           /\ Len(menu_data[1].items) = 1
           /\ menu_data[1].items[1].label = "System Monitor"
           /\ column_count = 1
           /\ storage.kind = "record"
           /\ storage.categories = <<ToJson(menu_data[1])>>

\* C7 witness: the first start found no file
C7_Witness == phase = "constructed" /\ lastOp.op = "load_missing" /\ lastOp.writes = 1

\* C8: a start whose load failed ends in the default state throughout: the
\* default tree, a column count of 1, the default palette and the default
\* title, and the record on disk is that default state.
C8_DefaultOnFailure ==
    (phase = "constructed" /\ lastOp.op = "load_failed")
        => /\ menu_data = DefaultTree
           /\ column_count = 1
           /\ custom_colors = DEFAULT_COLOR_PAIRS
           /\ app_title = DEFAULT_TITLE
           /\ storage = MenuRecord(DefaultTree, DEFAULT_TITLE, 1, DEFAULT_COLOR_PAIRS)

\* C9: on a tree whose items all carry the name of their category, an update
\* leaves alone every category other than the one the old item names: a category earlier in the tree that holds an item with the same label
\* and cmd, and that the new item is not filed under, keeps its items.
C9_UpdateRemovesFromNamedCategory ==
    [][\A old_item \in OldItems, new_item \in ItemInputs :
        (CategoryFieldsMatch(menu_data) /\ UpdateItem(old_item, new_item))
            => \A k \in 1..Len(menu_data) :
                (/\ menu_data[k].name # old_item.category
                 /\ menu_data[k].name # new_item.category
                 /\ HoldsMatch(menu_data[k], old_item)
                 /\ \E j \in (k + 1)..Len(menu_data) :
                        /\ menu_data[j].name = old_item.category
                        /\ HoldsMatch(menu_data[j], old_item))
                    => \E m \in 1..Len(menu_data') :
                            /\ menu_data'[m].name = menu_data[k].name
                            /\ menu_data'[m].items = menu_data[k].items]_vars

\* C10: an update whose old item is in no category, and a delete that finds no
\* item to remove, change nothing: the tree, the flat sequence, the cursor and
\* the record on disk stay as they were and nothing is written.
C10_MissIsNoOp ==
    [][(phase = "running" /\ lastOp'.op \in {"update_miss", "delete_miss"})
            => /\ UNCHANGED <<menu_data, display_items, current_index, storage>>
               /\ lastOp'.writes = 0]_vars

\* C10 witness: an update named an item that no resident category holds
C10_Witness ==
    /\ phase = "running"
    /\ lastOp.op = "update_miss"
    /\ menu_data # <<>>
    /\ display_items # <<>>

\* the keys of the categories in the record on disk
StoredNames == {storage.categories[k].key : k \in 1..Len(storage.categories)}

\* C11: a delete of the only item of a category leaves neither the tree nor
\* the record on disk with that category, and an add that names an absent
\* category right after a delete creates it expanded, in column 1, without
\* colours, holding exactly the new item.
C11_DeleteLastThenReuse ==
    [][/\ (/\ phase = "running"
           /\ lastOp'.op = "delete"
           /\ Len(menu_data[IndexOf(menu_data, CurrentEntry(Current).data[1].category)].items) = 1)
            => /\ CurrentEntry(Current).data[1].category \notin Names(menu_data')
               /\ CurrentEntry(Current).data[1].category \notin StoredNames'
       /\ \A item \in ItemInputs :
            (/\ lastOp.op = "delete"
             /\ item.category \notin Names(menu_data)
             /\ AddItem(item))
                => /\ IndexOf(menu_data', item.category) # 0
                   /\ menu_data'[IndexOf(menu_data', item.category)] =
                          Category(item.category, TRUE, <<1>>, <<>>, <<item>>)
                   /\ item.category \in StoredNames']_vars

\* C11 witness: a delete has removed the last category, on disk too, while the
\* column count is at the limit
C11_Witness ==
    /\ phase = "running"
    /\ lastOp.op = "delete"
    /\ column_count = MAX_COLUMNS
    /\ menu_data = <<>>
    /\ storage.kind = "record"
    /\ storage.categories = <<>>

\* C12: a save of the category dialog with a blank name, or with the name of
\* another resident category, shows an error and changes neither the tree nor
\* the record on disk, and writes nothing.
C12_BadNameRejected ==
    [][\A e \in RenameEdits \cup LayoutEdits :
        (/\ UpdateCategory(e.new_name, e.colors, e.column)
         /\ \/ e.new_name = <<"">>
            \/ /\ e.new_name # <<>>
               /\ e.new_name[1] # CurrentEntry(Current).name
               /\ e.new_name[1] \in Names(menu_data))
            => /\ UNCHANGED <<menu_data, storage, display_items, current_index>>
               /\ lastOp'.op = "category_rejected"
               /\ lastOp'.writes = 0]_vars

\* C12 witness: the dialog has shown an error while two categories are resident
C12_Witness ==
    /\ phase = "running"
    /\ lastOp.op = "category_rejected"
    /\ Len(menu_data) = 2

\* a colour of the form #rrggbb in lower case
ValidHex(color) ==
    /\ Len(color) = 7
    /\ color[1] = "#"
    /\ \A i \in 2..7 : color[i] \in HexDigits

\* C13: after an edit of a resident category every category either has no
\* colour pair or has one whose background and text are both #rrggbb colours.
C13_StoredPairValid ==
    (phase = "running" /\ lastOp.op = "category")
        => \A k \in 1..Len(menu_data) :
              \/ menu_data[k].colors = <<>>
              \/ /\ menu_data[k].colors[1].background # <<>>
                 /\ menu_data[k].colors[1].text # <<>>
                 /\ ValidHex(menu_data[k].colors[1].background[1])
                 /\ ValidHex(menu_data[k].colors[1].text[1])

\* C14: a toggle on the header under the cursor flips the expanded flag of that
\* category, and afterwards the cursor is on the one header of that category
\* in the new flat sequence.
C14_ToggleKeepsHeader ==
    [][(phase = "running" /\ lastOp'.op = "toggle")
        => /\ menu_data'[IndexOf(menu_data', CurrentEntry(Current).name)].expanded
                = ~menu_data[IndexOf(menu_data, CurrentEntry(Current).name)].expanded
           /\ current_index' < Len(display_items')
           /\ \A j \in 1..Len(display_items') :
                (display_items'[j] = CategoryHeader(CurrentEntry(Current).name))
                    <=> (j = current_index' + 1)]_vars

\* C14 witness: a toggle has collapsed a category whose header is not the
\* first entry, and the cursor is on it
C14_Witness ==
    /\ phase = "running"
    /\ lastOp.op = "toggle"
    /\ current_index >= 2
    /\ current_index < Len(display_items)
    /\ display_items[current_index + 1].type = "category"
    /\ ~menu_data[IndexOf(menu_data, display_items[current_index + 1].name)].expanded

\* C15: a set_column_count call, direct or made by applying the settings,
\* writes the menu record once when the column count or the column of a
\* category changes, and does not write it when neither does.
C15_WritesOnlyOnChange ==
    [][(phase = "running" /\ lastOp'.op \in {"columns", "settings"})
        => lastOp'.writes =
              (IF column_count' # column_count \/ menu_data' # menu_data THEN 1 ELSE 0)]_vars

\* C15, amended: a set_column_count call with its default flags writes the menu
\* record once when the column count or the column of a category changes and
\* does not write it when neither does; applying the settings writes the
\* record once in either case.
C15_WritesOnceAmended ==
    [][/\ (phase = "running" /\ lastOp'.op = "columns")
            => lastOp'.writes =
                  (IF column_count' # column_count \/ menu_data' # menu_data
                   THEN 1 ELSE 0)
       /\ (phase = "running" /\ lastOp'.op = "settings") => lastOp'.writes = 1]_vars

\* C15 witness: a set_column_count call has brought the count down to 1 with a
\* category resident, and has written once
C15_Witness ==
    /\ phase = "running"
    /\ lastOp.op = "columns"
    /\ lastOp.writes = 1
    /\ column_count = 1
    /\ menu_data # <<>>

\* the reference linearization, written by recursion on the tree: what the
\* categories of column k contribute, walking the tree in insertion order
RECURSIVE ReferenceColumn(_, _)
ReferenceColumn(tree, k) ==
    IF tree = <<>> THEN <<>>
    ELSE LET c == Head(tree)
             header == IF c.column = <<k>>
                       THEN <<[type |-> "category", name |-> c.name, data |-> <<>>]>>
                       ELSE <<>>
             items == IF c.column = <<k>> /\ c.expanded
                      THEN [i \in 1..Len(c.items) |->
                               [type |-> "item", name |-> "", data |-> <<c.items[i]>>]]
                      ELSE <<>>
         IN  header \o items \o ReferenceColumn(Tail(tree), k)

\* columns k..columns in ascending order
RECURSIVE ReferenceFrom(_, _, _)
ReferenceFrom(tree, k, columns) ==
    IF k > columns THEN <<>>
    ELSE ReferenceColumn(tree, k) \o ReferenceFrom(tree, k + 1, columns)

\* C16: whenever the application is running, the flat sequence is the reference
\* linearization of the tree: columns 1..column_count ascending, within a column
\* the categories in insertion order, a header per category followed by its
\* items in order only if it is expanded
C16_FlatIsReference ==
    phase = "running" =>
        display_items = ReferenceFrom(menu_data, 1, column_count)

\* C16 witness: a projection in which column order overrides insertion order (an
\* earlier category sits in a later column) and a collapsed category holds items
C16_Witness ==
    /\ phase = "running"
    /\ \E i, j \in 1..Len(menu_data) :
            /\ i < j
            /\ Get(menu_data[i].column, 1) > Get(menu_data[j].column, 1)
    /\ \E i \in 1..Len(menu_data) :
            ~menu_data[i].expanded /\ menu_data[i].items # <<>>
    /\ display_items # <<>>

\* the application state once compose has created menu_container
WithContainer == [Current EXCEPT !.mounted = TRUE]

\* C17: projecting the state the application holds, and projecting again with
\* no mutation in between, give the same flat sequence, nothing duplicated or
\* appended to an earlier result; this covers the projection that purges an
\* empty category and so runs the data-changed hook (the first projection of
\* on_mount after a file with an empty category was loaded)
C17_ProjectionRepeatable ==
    phase \in {"constructed", "running"} =>
        update_menu_display(WithContainer).display_items
            = update_menu_display(update_menu_display(WithContainer)).display_items

\* n cursor steps in a row
RECURSIVE MoveTimes(_, _, _)
MoveTimes(s, step, n) ==
    IF n = 0 THEN s ELSE MoveTimes(move_cursor(s, step), step, n - 1)

\* C18: a cursor-down step takes the index to (index + 1) mod n and a cursor-up
\* step to (index - 1) mod n, n being the length of the flat sequence, which the
\* step leaves alone; n steps down from the index bring it back; on an empty
\* sequence the step changes nothing
C18_MoveWraps ==
    [][lastOp'.op \in {"up", "down"} =>
        LET n == Len(display_items)
            step == IF lastOp'.op = "down" THEN 1 ELSE -1
        IN  /\ display_items' = display_items
            /\ menu_data' = menu_data
            /\ IF n = 0 THEN current_index' = current_index
               ELSE /\ current_index' = (current_index + step) % n
                    /\ MoveTimes(Current, 1, n).current_index = current_index]_vars

\* C18 witness: a cursor-down step has wrapped from the last entry to the first
C18_Witness ==
    /\ phase = "running"
    /\ lastOp.op = "down"
    /\ Len(display_items) >= 3
    /\ current_index = 0

\* C19: after a delete has re-projected, the cursor index is what it was when
\* it is still below the new length of the flat sequence, and is max(0, length - 1)
\* only when it is at or beyond the new length
C19_DeleteClampsCursor ==
    [][lastOp'.op = "delete" =>
        IF current_index < Len(display_items')
        THEN current_index' = current_index
        ELSE current_index' = Max2(0, Len(display_items') - 1)]_vars

\* the 1-based positions of the MenuItem entries of seq with the label and cmd of
\* item
Anchors(seq, item) ==
    {i \in 1..Len(seq) : /\ seq[i].type = "item"
                         /\ seq[i].data[1].label = item.label
                         /\ seq[i].data[1].cmd = item.cmd}

\* C20: after a successful update the cursor is on the first MenuItem of the new
\* flat sequence whose (label, cmd) is the new item's; when there is none (the
\* new item's category is collapsed) the index is clamped into the new sequence
C20_UpdateAnchorsCursor ==
    [][(phase = "running" /\ lastOp'.op = "update") =>
        \A new_item \in ItemInputs, old_item \in OldItems :
            (/\ IndexOf(menu_data', new_item.category) # 0
             /\ FoundCategory(menu_data, old_item) # 0
             /\ LET r == update_item(Current, old_item, new_item)
                IN  /\ menu_data' = r.menu_data
                    /\ current_index' = r.current_index
                    /\ display_items' = r.display_items)
            => LET n == Len(display_items')
                   found == Anchors(display_items', new_item)
               IN  IF found # {}
                   THEN /\ current_index' + 1 \in found
                        /\ \A i \in found : current_index' + 1 <= i
                   ELSE current_index' = Max2(0, Min2(current_index, n - 1))]_vars

\* C20 witness: an update has left the cursor on a header, so the new item is
\* not in the flat sequence: its category is collapsed
C20_Witness ==
    /\ phase = "running"
    /\ lastOp.op = "update"
    /\ HasCurrent(Current)
    /\ CurrentEntry(Current).type = "category"
    /\ \E i \in 1..Len(menu_data) : ~menu_data[i].expanded

Busy == {"suspended", "command", "paused"}

\* C23: an execute of a command goes from idle to suspended, then to the running
\* command, then to the pause or back to idle, and from the pause back to idle;
\* the command is started only from the suspended display, and the pause (exit
\* code printed, input awaited) is entered exactly when the command run has
\* completed and the item's pause setting is true
C23_RunnerOrder ==
    [][/\ (phase' = "suspended" => phase = "running" /\ ExecuteRuns(Current))
       /\ (phase' = "command" => phase = "suspended")
       /\ (phase = "suspended" => phase' = "command")
       /\ (phase = "command" => phase' \in {"paused", "running"})
       /\ (phase' = "paused" <=> /\ phase = "command"
                                 /\ lastOp'.op = "command_done"
                                 /\ PauseSetting(Current))
       /\ (phase = "paused" => phase' = "running")]_vars

\* C23 witness: the command of an item with pause set has completed and the
\* runner waits for the acknowledgment
C23_Witness ==
    /\ phase = "paused"
    /\ lastOp.op = "command_done"
    /\ PauseSetting(Current)

\* the blank commands among the ones the model's items carry: the empty string
\* and the one made of a space
BlankCommands == {"", " "}

\* C24: an execute with the cursor on an item whose command is blank, empty or
\* whitespace only, is a no-op: the runner stays idle, the display is not
\* suspended, no command is run and the menu state is what it was
C24_BlankIsNoOp ==
    [][(/\ phase = "running"
        /\ lastOp'.op \in {"execute", "execute_skip"}
        /\ HasCurrent(Current)
        /\ CurrentEntry(Current).type = "item"
        /\ CurrentEntry(Current).data[1].cmd \in BlankCommands)
            => (phase' = "running" /\ UNCHANGED menu_state)]_vars

\* C25: from the moment the display is suspended until the runner is idle again
\* every step leaves the menu state as it is: the tree, the column count, the
\* title, the palette, the flat sequence, the cursor index and the record on
\* disk; no handler of the store or the cursor takes a step meanwhile, whether
\* the command or the acknowledgment completes or raises
C25_BusyKeepsMenuState ==
    [][(phase \in Busy \/ phase' \in Busy)
           => /\ UNCHANGED menu_state
              /\ lastOp'.op \in {"execute", "command", "command_done", "command_raised",
                                 "acknowledge", "acknowledge_raised"}
              /\ lastOp'.writes = 0]_vars

\* C25 witness: the runner is idle again after the acknowledgment read raised,
\* with the cursor on the item that was run
C25_Witness ==
    /\ phase = "running"
    /\ lastOp.op = "acknowledge_raised"
    /\ ExecuteRuns(Current)
    /\ menu_data # <<>>

\* the string without its one optional leading marker
Unmarked(v) == IF v # <<>> /\ v[1] = "#" THEN Tail(v) ELSE v

\* exactly six characters, each in 0-9, a-f or A-F
SixHexDigits(b) == Len(b) = 6 /\ \A i \in 1..6 : b[i] \in HexDigits \cup UpperHex

\* C26: normalize_hex_color returns the marker followed by the six digits in
\* lower case exactly when its input, trimmed of surrounding whitespace and with
\* one optional leading marker removed, is six characters each in 0-9, a-f or
\* A-F; for every other input (None included) it returns None
C26_NormalizeHex ==
    (call.fn = "normalize_hex_color" /\ call.done)
        => call.result =
              (IF call.arg # <<>> /\ SixHexDigits(Unmarked(Strip(call.arg[1])))
               THEN << <<"#">> \o Lower(Unmarked(Strip(call.arg[1]))) >>
               ELSE <<>>)

\* the built-in defaults from position i on whose pair, compared in lower case,
\* is not among seen, in built-in order
RECURSIVE MissingDefaults(_, _)
MissingDefaults(seen, i) ==
    IF i > Len(DEFAULT_COLOR_PAIRS) THEN <<>>
    ELSE (IF LowerPair(DEFAULT_COLOR_PAIRS[i]) \in seen THEN <<>>
          ELSE <<DEFAULT_COLOR_PAIRS[i]>>) \o MissingDefaults(seen, i + 1)

\* C27: the palette is the custom colours in order, then every built-in default
\* whose (background, text) pair is not among them, compared case-insensitively,
\* in built-in order; fillers follow only when that leaves fewer than 4 entries,
\* and the palette has at least 4 entries
C27_PaletteOrder ==
    (call.fn = "_build_palette_entries" /\ call.done)
        => LET listed == call.arg \o MissingDefaults(SeenPairs(call.arg), 1)
           IN  /\ Len(call.result) >= 4
               /\ Len(call.result) >= Len(listed)
               /\ SubSeq(call.result, 1, Len(listed)) = listed
               /\ Len(listed) >= 4 => call.result = listed

\* C28: when load has returned, whatever record the file held, no resident
\* category has an empty item list and every item's category field names the
\* category that holds it; a record that breaks either rule has given way to
\* the default tree
C28_LoadedTreeValid ==
    phase = "constructed"
        => /\ \A k \in 1..Len(menu_data) : menu_data[k].items # <<>>
           /\ CategoryFieldsMatch(menu_data)

\* what an accepted category edit e leaves of the category under the cursor:
\* the name, the colours and the column asked for, all three
EditApplied(e) ==
    LET old_name == CurrentEntry(Current).name
        before == menu_data[IndexOf(menu_data, old_name)]
        k == IndexOf(menu_data', Get(e.new_name, old_name))
    IN  /\ k # 0
        /\ (e.new_name # <<>> /\ e.new_name[1] # old_name) => old_name \notin Names(menu_data')
        /\ menu_data'[k].colors =
              (IF e.colors = <<>> THEN <<>>
               ELSE <<[background |-> <<Hex("1", "a", "2", "b", "3", "c")>>,
                       text |-> <<Hex("f", "f", "f", "f", "f", "f")>>]>>)
        /\ menu_data'[k].column =
              <<Max2(1, Min2(column_count, Get(e.column, Get(before.column, 1))))>>
        /\ Len(menu_data'[k].items) = Len(before.items)

\* C29: an add, update or delete of an item and a category edit either change
\* nothing, without a write, or apply all of their effects and leave the record
\* on disk equal to the resident state; a category edit whose name is taken is
\* of the first kind, its colours and column are not applied either, and an
\* accepted one applies name, colours and column together
C29_AllOrNothing ==
    [][(phase = "running" /\ lastOp'.op \in ItemOps \cup {"category", "category_rejected"})
        => /\ \/ UNCHANGED menu_state /\ lastOp'.writes = 0
              \/ Persisted' /\ lastOp'.writes >= 1
           /\ lastOp'.op \in {"update_miss", "delete_miss", "category_rejected"}
                  => UNCHANGED menu_state /\ lastOp'.writes = 0
           /\ lastOp'.op = "category"
                  => \A e \in ColumnEdits \cup ClashEdits :
                        (/\ ~SaveRejected(Current, e.new_name, e.colors)
                         /\ LET r == edit_category(Current, e.new_name, e.colors, e.column)
                            IN  /\ menu_data' = r.menu_data
                                /\ current_index' = r.current_index
                                /\ display_items' = r.display_items)
                        => EditApplied(e)]_vars

\* C29 witness: with A and B resident, two columns and nothing coloured, a
\* category edit that asked for a taken name, colours and column 2 was turned
\* down and every category is still in column 1
C29_Witness ==
    /\ phase = "running"
    /\ lastOp.op = "category_rejected"
    /\ {"A", "B"} \subseteq Names(menu_data)
    /\ column_count = 2
    /\ \A k \in 1..Len(menu_data) :
            menu_data[k].colors = <<>> /\ menu_data[k].column = <<1>>

\* C30: an add into a resident category appends the item as the last of that
\* category's items and leaves the category's expanded flag, column and colours,
\* the order of the categories and every other category as they were; an add
\* into an absent category appends one category to the tree, expanded, in column
\* 1, without colours, holding the item alone
C30_AddAppends ==
    [][(phase = "running" /\ lastOp'.op = "add") =>
        \A item \in LayoutItems \cup ItemInputs :
            menu_data' = add_new_item(Current, item).menu_data
            => LET k == IndexOf(menu_data, item.category)
               IN  IF k # 0
                   THEN /\ Len(menu_data') = Len(menu_data)
                        /\ menu_data'[k].items = Append(menu_data[k].items, item)
                        /\ menu_data'[k].name = menu_data[k].name
                        /\ menu_data'[k].expanded = menu_data[k].expanded
                        /\ menu_data'[k].column = menu_data[k].column
                        /\ menu_data'[k].colors = menu_data[k].colors
                        /\ \A j \in 1..Len(menu_data) :
                              j # k => menu_data'[j] = menu_data[j]
                   ELSE /\ Len(menu_data') = Len(menu_data) + 1
                        /\ SubSeq(menu_data', 1, Len(menu_data)) = menu_data
                        /\ menu_data'[Len(menu_data')]
                              = [name |-> item.category, expanded |-> TRUE,
                                 column |-> <<1>>, colors |-> <<>>,
                                 items |-> <<item>>]]_vars

\* C30 witness: an add has put a second item into the first category, which is
\* collapsed, coloured and in column 2, while another category is resident
C30_Witness ==
    /\ phase = "running"
    /\ lastOp.op = "add"
    /\ Len(menu_data) >= 2
    /\ \E k \in 1..(Len(menu_data) - 1) :
            /\ Len(menu_data[k].items) = 2
            /\ ~menu_data[k].expanded
            /\ menu_data[k].colors # <<>>
            /\ menu_data[k].column = <<2>>

----------------------------------------------------------------------------
\* C31: after a successful update the new item is the last item of the
\* category it names, also when that is the category the old item was in, and
\* a category that was already resident keeps its expanded flag, its column
\* and its colours
C31_UpdateFilesLast ==
    [][(phase = "running" /\ lastOp'.op = "update") =>
        \A new_item \in LayoutItems, old_item \in LayoutItems \cup {DefaultItem} :
            (/\ IndexOf(menu_data', new_item.category) # 0
             /\ FoundCategory(menu_data, old_item) # 0
             /\ LET r == update_item(Current, old_item, new_item)
                IN  /\ menu_data' = r.menu_data
                    /\ current_index' = r.current_index
                    /\ display_items' = r.display_items)
            => LET after == menu_data'[IndexOf(menu_data', new_item.category)]
                   k == IndexOf(menu_data, new_item.category)
               IN  /\ after.items # <<>>
                   /\ after.items[Len(after.items)] = new_item
                   /\ k # 0 => /\ after.expanded = menu_data[k].expanded
                               /\ after.column = menu_data[k].column
                               /\ after.colors = menu_data[k].colors]_vars

\* C31 witness: an update has left a coloured category of the second column
\* with two items, the edited one behind the one that was not touched
C31_Witness ==
    /\ phase = "running"
    /\ lastOp.op = "update"
    /\ \E i \in 1..Len(menu_data) :
          /\ menu_data[i].colors # <<>>
          /\ menu_data[i].column = <<2>>
          /\ Len(menu_data[i].items) = 2
          /\ menu_data[i].items[1] = DefaultItem
          /\ menu_data[i].items[2].label = "L1"

----------------------------------------------------------------------------
\* the command scanDirectory gives the item of a file
ManagedCommand(name) == "~/.local/menu-maker/bin/" \o name

\* some item's command, blanks around it aside, is the managed path of name
Referenced(tree, name) ==
    \E i \in 1..Len(tree) : \E j \in 1..Len(tree[i].items) :
        strip(tree[i].items[j].cmd) = ManagedCommand(name)

\* the number of items of the category for scanned executables whose command
\* is the managed path of name
ScannedItems(tree, name) ==
    Cardinality({<<i, j>> \in (1..Len(tree)) \X (1..3) :
                    /\ tree[i].name = "Bin Executables"
                    /\ j <= Len(tree[i].items)
                    /\ tree[i].items[j].category = "Bin Executables"
                    /\ tree[i].items[j].cmd = ManagedCommand(name)})

\* the files of ./bin a scan has to add: executable regular files no item
\* refers to
Unreferenced(tree, files) ==
    {file \in files : file.is_file /\ file.executable /\ ~Referenced(tree, file.name)}

\* the step is a scan of ./bin listed as listing with these move outcomes
ScanStep(listing, outcome) ==
    /\ bin_dir' = <<remaining(Current, bin_dir[1], outcome)>>
    /\ menu_data' = scan_and_add_bin_executables(Current, listing, outcome).menu_data

----------------------------------------------------------------------------
\* C33: in a scan a file whose move step fails gets no item and does not end
\* the scan: every other newly discovered file whose move went through,
\* listed before or after it, has its item in the tree and in the record on
\* disk
C33_FailedMoveSkipped ==
    [][(phase = "running" /\ lastOp'.op \in {"scan", "scan_none"}) =>
        \A listing \in Listings(bin_dir[1]) :
        \A outcome \in [DiscoveredNames(Current, bin_dir[1]) -> MoveOutcomes] :
            ScanStep(listing, outcome)
            => /\ \A file \in Unreferenced(menu_data, bin_dir[1]) :
                    IF outcome[file.name] = "moved"
                    THEN /\ ScannedItems(menu_data', file.name) = 1
                         /\ storage' = MenuRecord(menu_data', app_title', column_count',
                                                  custom_colors')
                    ELSE ~Referenced(menu_data', file.name)
               /\ \A file \in bin_dir[1] :
                    (file \in Unreferenced(menu_data, bin_dir[1])
                        /\ outcome[file.name] = "move_failed")
                    => file \in bin_dir'[1]]_vars

\* C33 witness: a scan has added the item of my_tool while f1, which no item
\* refers to, is still in ./bin: its move failed
C33_Witness ==
    /\ phase = "running"
    /\ lastOp.op = "scan"
    /\ bin_dir # <<>>
    /\ File("f1", TRUE, TRUE) \in bin_dir[1]
    /\ ~Referenced(menu_data, "f1")
    /\ ScannedItems(menu_data, "my_tool") = 1

----------------------------------------------------------------------------
\* no two entries of the list have the same (background, text) pair
DistinctPairs(colors) ==
    \A i, j \in 1..Len(colors) :
        (colors[i].background = colors[j].background /\ colors[i].text = colors[j].text)
        => i = j

\* a typed colour in its stored form: lower case, blanks dropped, the marker
\* in front
StoredForm(typed) == <<(<<"#">> \o Lower(Unmarked(Strip(typed))))>>

\* C34: from a list with pairwise distinct pairs, every add leaves a list with
\* pairwise distinct pairs, and adding a pair the list holds changes nothing
\* but the name of the entry that holds it
C34_PaletteDeduplicated ==
    (call.fn = "action_add_color" /\ call.done)
        => /\ DistinctPairs(call.result)
           /\ \A k \in 1..Len(call.arg.available_colors) :
                (/\ call.arg.available_colors[k].background
                        = StoredForm(call.arg.background)
                 /\ call.arg.available_colors[k].text = StoredForm(call.arg.text))
                => /\ Len(call.result) = Len(call.arg.available_colors)
                   /\ \A i \in 1..Len(call.result) :
                        /\ call.result[i].background
                                = call.arg.available_colors[i].background
                        /\ call.result[i].text = call.arg.available_colors[i].text
                        /\ i # k => call.result[i] = call.arg.available_colors[i]

\* C34 witness: the pair of the first default was typed in upper case under a
\* name, and the list of five defaults came back with that entry renamed
C34_Witness ==
    /\ call.fn = "action_add_color"
    /\ call.done
    /\ Len(call.arg.available_colors) = 5
    /\ call.arg.available_colors[1].name = <<"Teal Glow">>
    /\ Len(call.result) = 5
    /\ call.result[1].name = <<"Mine">>

----------------------------------------------------------------------------
\* C35: after every operation the cursor index is a position of the flat
\* sequence, 0 <= index < length, when the sequence is not empty, and is 0
\* when the sequence is empty
C35_CursorInRange ==
    (phase = "running" /\ lastOp.op \in {"up", "down", "add", "update", "update_miss",
                                         "delete", "delete_miss", "category",
                                         "category_rejected", "toggle", "toggle_skip",
                                         "columns"})
        => IF display_items = <<>> THEN current_index = 0
           ELSE 0 <= current_index /\ current_index < Len(display_items)

\* C35 witness: a delete has emptied the flat sequence
C35_Witness ==
    /\ phase = "running"
    /\ lastOp.op = "delete"
    /\ display_items = <<>>
    /\ current_index = 0

----------------------------------------------------------------------------
\* the number of headers of the category name in the flat sequence
HeaderCount(seq, name) ==
    Cardinality({i \in 1..Len(seq) : seq[i].type = "category" /\ seq[i].name = name})

\* one entry for each category with items, one more for each item of an
\* expanded category
ProjectedLength(tree) ==
    SumSeq([i \in 1..Len(tree) |->
                IF tree[i].items = <<>> THEN 0
                ELSE IF tree[i].expanded THEN 1 + Len(tree[i].items) ELSE 1])

\* C36: whatever the column count and the columns of the categories, the flat
\* sequence has exactly one header for each category with items and as many
\* entries as there are such categories and items of expanded ones, and a
\* change of the column count leaves its length as it was
C36_NoCategoryDropped ==
    [][phase' = "running" =>
        /\ column_count' \in 1..MAX_COLUMNS
        /\ \A i \in 1..Len(menu_data') :
              HeaderCount(display_items', menu_data'[i].name)
                = (IF menu_data'[i].items = <<>> THEN 0 ELSE 1)
        /\ Len(display_items') = ProjectedLength(menu_data')
        /\ (phase = "running" /\ lastOp'.op = "columns")
              => Len(display_items') = Len(display_items)]_vars

\* C36 witness: the column count went from 2 to 6 with a category in the
\* second column, where a stored column of 5 had been brought
C36_Witness ==
    /\ phase = "running"
    /\ lastOp.op = "columns"
    /\ column_count = 6
    /\ display_items # <<>>
    /\ \E i \in 1..Len(menu_data) : menu_data[i].column = <<2>>

----------------------------------------------------------------------------
\* the names of the headers of a flat sequence, in its order
RECURSIVE Headers(_)
Headers(seq) ==
    IF seq = <<>> THEN <<>>
    ELSE (IF Head(seq).type = "category" THEN <<Head(seq).name>> ELSE <<>>)
            \o Headers(Tail(seq))

\* C37: an accepted rename that leaves the column alone keeps the category
\* where it is in the order: the headers of the flat sequence are the same
\* before and after, in the same order, but for the name that was replaced
C37_RenameKeepsOrder ==
    [][(phase = "running" /\ lastOp'.op = "category") =>
        \A e \in RenameEdits :
            (/\ e.new_name # <<>>
             /\ HasCurrent(Current)
             /\ CurrentEntry(Current).type = "category"
             /\ e.new_name[1] # CurrentEntry(Current).name
             /\ ~SaveRejected(Current, e.new_name, e.colors)
             /\ LET r == edit_category(Current, e.new_name, e.colors, e.column)
                IN  /\ menu_data' = r.menu_data
                    /\ current_index' = r.current_index
                    /\ display_items' = r.display_items)
            => Headers(display_items')
                 = [i \in 1..Len(Headers(display_items)) |->
                        IF Headers(display_items)[i] = CurrentEntry(Current).name
                        THEN e.new_name[1]
                        ELSE Headers(display_items)[i]]]_vars

----------------------------------------------------------------------------
\* the trees differ in nothing but the expanded flag of the category name,
\* which is flipped
OnlyFlagFlipped(before, after, name) ==
    /\ Len(after) = Len(before)
    /\ \A i \in 1..Len(before) :
          IF before[i].name = name
          THEN after[i] = [before[i] EXCEPT !.expanded = ~@]
          ELSE after[i] = before[i]

\* C38: a toggle changes nothing in the tree but the expanded flag of the
\* category under the cursor, and toggling again right away brings back the
\* tree, the flat sequence, the cursor index and the record on disk as they
\* were before the first toggle
C38_ToggleInvolution ==
    [][(phase = "running" /\ lastOp'.op = "toggle") =>
        /\ OnlyFlagFlipped(menu_data, menu_data', CurrentEntry(Current).name)
        /\ LET twice == action_toggle_category(Current')
           IN  /\ twice.menu_data = menu_data
               /\ twice.display_items = display_items
               /\ twice.current_index = current_index
               /\ twice.storage = storage]_vars

\* C38, amended: a toggle changes nothing in the tree but the expanded flag of
\* the category under the cursor, and toggling again right away brings back
\* the tree, the flat sequence and the cursor index as they were before the
\* first toggle and leaves on disk the record of that state, which is the
\* record that was there before whenever the disk held the resident state
C38_ToggleInvolutionAmended ==
    [][(phase = "running" /\ lastOp'.op = "toggle") =>
        /\ OnlyFlagFlipped(menu_data, menu_data', CurrentEntry(Current).name)
        /\ LET twice == action_toggle_category(Current')
           IN  /\ twice.menu_data = menu_data
               /\ twice.display_items = display_items
               /\ twice.current_index = current_index
               /\ twice.storage = MenuRecord(menu_data, app_title, column_count,
                                             custom_colors)
               /\ Persisted => twice.storage = storage]_vars

\* C38 witness: a toggle has collapsed the second of two categories, whose
\* header the cursor is on
C38_Witness ==
    /\ phase = "running"
    /\ lastOp.op = "toggle"
    /\ Len(menu_data) = 2
    /\ ~menu_data[2].expanded
    /\ HasCurrent(Current)
    /\ CurrentEntry(Current).name = menu_data[2].name
    /\ current_index > 0

====
